---- MODULE Spec2Model ----
(***************************************************************************)
(* Model of the soma sync core: the FIT synthesis engine                   *)
(* (sync/src/fit_generator.py), the heart-rate resolver                    *)
(* (sync/src/activity_replacer.py) and the routing rule engine             *)
(* (sync/src/router.py).                                                   *)
(*                                                                         *)
(* Arithmetic: the source computes in IEEE doubles; the model computes the *)
(* same expressions in exact rationals (numerator/denominator pairs) and   *)
(* applies Python's round() (round-half-to-even) where the source does.    *)
(* Times are seconds or milliseconds relative to a small epoch so that     *)
(* every value fits TLC's integers.                                        *)
(***************************************************************************)
EXTENDS Integers, Sequences, FiniteSets, TLC

VARIABLES
    fit_in,     \* arguments of the generate_fit call: hevy_workout, hr_samples,
                \* output_path
    fit_pc,     \* "call" | "done" | "raised"
    fit_out,    \* what the call left behind: locals, the file's records, the summary
    fit_disk,   \* the records of the file at each output path (<<>>: no file)
    fit_log,    \* the generate_fit calls made so far, with the disk before and after
    hr_in,      \* arguments of the resolve_hr_samples call and the stored monitoring rows
    hr_pc,      \* "idle" | "call" | "done" | "raised"
    hr_out,     \* the local hr and the returned (samples, source)
    route_in,   \* arguments of the execute_routes call
    route_pc,   \* "idle" | "call" | "loop" | "returned" | "raised"
    route_st,   \* locals of execute_routes: matched, loop position, results
    sync_log,   \* rows of the activity_sync_log table
    enr_in,     \* what enrich_new_workouts reads: to_enrich and the stored averages
    enr_pc,     \* "idle" | "loop" | "returned"
    enr_st,     \* locals of enrich_new_workouts: loop index, recent_hr_avgs, enriched
    push_in,    \* arguments of push_workout_to_strava and the replies of Strava
    push_pc,    \* "idle" | "call" | "poll" | "status" | "returned" | "raised"
    push_st,    \* locals of push_workout_to_strava, the replies polled, the log
    call_in,    \* arguments of a direct call of _calc_calories or lookup_exercise
    call_pc,    \* "idle" | "call" | "first" | "done"
    call_out,   \* what the call or the pair of calls returned
    bf_db,      \* what a backfill reads and writes: the progress row, the stored data
    bf_pc,      \* "idle" | "start" | "loop" | "day" | "saving" | "returned" | ...
    bf_st,      \* the backfill object and the locals of its run
    rec_in,     \* the activities reconcile_strava_syncs loads
    rec_pc,     \* "idle" | "call" | "returned"
    rec_st      \* the sync-log entries, and the counts the runs returned

fit_vars == <<fit_in, fit_pc, fit_out, fit_disk, fit_log>>
hr_vars == <<hr_in, hr_pc, hr_out>>
route_vars == <<route_in, route_pc, route_st, sync_log>>
enrich_vars == <<enr_in, enr_pc, enr_st>>
push_vars == <<push_in, push_pc, push_st>>
call_vars == <<call_in, call_pc, call_out>>
backfill_vars == <<bf_db, bf_pc, bf_st>>
recon_vars == <<rec_in, rec_pc, rec_st>>
vars == <<fit_vars, hr_vars, route_vars, enrich_vars, push_vars, call_vars,
          backfill_vars, recon_vars>>

\* The variables the calls of one component leave alone
except_fit ==
    <<hr_vars, route_vars, enrich_vars, push_vars, call_vars, backfill_vars, recon_vars>>
except_hr ==
    <<fit_vars, route_vars, enrich_vars, push_vars, call_vars, backfill_vars, recon_vars>>
except_route ==
    <<fit_vars, hr_vars, enrich_vars, push_vars, call_vars, backfill_vars, recon_vars>>
except_enrich ==
    <<fit_vars, hr_vars, route_vars, push_vars, call_vars, backfill_vars, recon_vars>>
except_push ==
    <<fit_vars, hr_vars, route_vars, enrich_vars, call_vars, backfill_vars, recon_vars>>
except_call ==
    <<fit_vars, hr_vars, route_vars, enrich_vars, push_vars, backfill_vars, recon_vars>>
except_backfill ==
    <<fit_vars, hr_vars, route_vars, enrich_vars, push_vars, call_vars, recon_vars>>
except_recon ==
    <<fit_vars, hr_vars, route_vars, enrich_vars, push_vars, call_vars, backfill_vars>>

-----------------------------------------------------------------------------
(* Generic helpers *)

RECURSIVE SumSeq(_)
SumSeq(s) == IF s = <<>> THEN 0 ELSE Head(s) + SumSeq(Tail(s))

RECURSIVE MaxSeq(_)
MaxSeq(s) ==
    IF Len(s) = 1 THEN s[1]
    ELSE LET m == MaxSeq(Tail(s)) IN IF s[1] >= m THEN s[1] ELSE m

\* Python's round(p / q) for q > 0: nearest integer, ties to the even one.
PyRound(p, q) ==
    LET f == p \div q
        r == p % q
    IN  IF 2 * r > q THEN f + 1
        ELSE IF 2 * r < q THEN f
        ELSE f + (f % 2)

\* Sequences over S of length 0..n
SeqsUpTo(S, n) == UNION {[1..k -> S] : k \in 0..n}

-----------------------------------------------------------------------------
(* fit_generator.py: constants *)

WORKING_SET_DURATION == 40
WARMUP_SET_DURATION == 25
REST_BETWEEN_SETS == 75
REST_BETWEEN_EXERCISES == 120
\* _MIN_SCALE = 0.3 as the fraction MIN_SCALE_NUM / MIN_SCALE_DEN
MIN_SCALE_NUM == 3
MIN_SCALE_DEN == 10
MAX_SCALE == 2
\* 80.5 kg in units of 0.1 kg
USER_WEIGHT_KG10 == 805
USER_BIRTH_YEAR == 1994
USER_VO2MAX == 50
DEFAULT_HR_BPM == 90

-----------------------------------------------------------------------------
(* fit_generator.py: helpers *)

\* _parse_timestamp: a raw timestamp is modelled by its form and, when it
\* parses, the instant it denotes.  "iso" is the ISO-8601 form, "space" the
\* Garmin space-separated form; "bad" does not parse (ValueError).
\* hevy_workout["start_time"] of a workout without the key raises KeyError
\* ("missing"); the empty string ("empty") does not parse either.
\* Mutant: only a missing key makes the call fail
MutParseOk(raw) == raw.form # "missing"

ParseOk(raw) == raw.form \in {"iso", "space"}

\* _ms: milliseconds of an instant given in whole seconds
Ms(epoch_s) == epoch_s * 1000

\* Keytel numerator of kcal/min in units of 1/(5*10^4) kJ/min:
\* (-95.7735 + 0.634*HR + 0.404*VO2max + 0.394*W + 0.271*age) * 2000
KeytelNum(hr, age) ==
    -191547 + 1268 * hr + 808 * USER_VO2MAX
    + (788 * USER_WEIGHT_KG10) \div 10 + 542 * age

\* 4.184 * 2000 (kJ -> kcal), times 60 (minutes -> seconds)
KeytelDen == 8368 * 60

PosPart(x) == IF x > 0 THEN x ELSE 0

RECURSIVE SumDiv(_, _, _, _)
\* <<sum of floor(max(0,k_i) * d / D), sum of the remainders>>
SumDiv(hrs, age, d, D) ==
    IF hrs = <<>> THEN <<0, 0>>
    ELSE LET a == PosPart(KeytelNum(Head(hrs), age)) * d
             rest == SumDiv(Tail(hrs), age, d, D)
         IN  <<(a \div D) + rest[1], (a % D) + rest[2]>>

\* Mutant: no default heart rate is substituted for an empty sample list
MutCalcCalories(hr_samples, duration_s, workout_year) ==
    LET age == workout_year - USER_BIRTH_YEAR
        D == Len(hr_samples) * KeytelDen
        qr == SumDiv(hr_samples, age, duration_s, D)
    IN  IF hr_samples = <<>> THEN 0
        ELSE PyRound(qr[1] * D + qr[2], D)

\* Mutant: every sample's share is rounded before it is added
MutRoundEach(hr_samples, duration_s, workout_year) ==
    LET age == workout_year - USER_BIRTH_YEAR
        hrs == IF hr_samples = <<>> THEN <<DEFAULT_HR_BPM>> ELSE hr_samples
        D == Len(hrs) * KeytelDen
    IN  SumSeq([i \in 1..Len(hrs) |->
                   PyRound(PosPart(KeytelNum(hrs[i], age)) * duration_s, D)])

\* _calc_calories(hr_samples, duration_s, workout_year)
CalcCalories(hr_samples, duration_s, workout_year) ==
    LET age == workout_year - USER_BIRTH_YEAR
        hrs == IF hr_samples = <<>> THEN <<DEFAULT_HR_BPM>> ELSE hr_samples
        D == Len(hrs) * KeytelDen
        qr == SumDiv(hrs, age, duration_s, D)
        base == qr[1] + (qr[2] \div D)
        r == qr[2] % D
    IN  IF 2 * r > D THEN base + 1
        ELSE IF 2 * r < D THEN base
        ELSE base + (base % 2)

-----------------------------------------------------------------------------
(* fit_generator.py: generate_fit, in the order of its sections *)

\* Mutant: only "normal" sets get the working duration
MutSetDur(s) ==
    IF s.type = "normal" THEN WORKING_SET_DURATION ELSE WARMUP_SET_DURATION

\* set_dur of one set: s.get("type", "normal") == "warmup"
SetDur(s) ==
    IF s.type = "warmup" THEN WARMUP_SET_DURATION ELSE WORKING_SET_DURATION

\* Rest after set s_idx of exercise ex_idx (both 0-based, as enumerate gives)
RestDur(exercises, ex_idx, s_idx) ==
    LET sets == exercises[ex_idx + 1].sets
        is_last_set_of_exercise == s_idx = Len(sets) - 1
        is_last_exercise == ex_idx = Len(exercises) - 1
        is_very_last == is_last_set_of_exercise /\ is_last_exercise
    IN  IF is_very_last THEN 0
        ELSE IF is_last_set_of_exercise THEN REST_BETWEEN_EXERCISES
        ELSE REST_BETWEEN_SETS

\* The entries all_sets_info gets for one exercise
SetsInfoOf(exercises, ex_idx) ==
    LET sets == exercises[ex_idx + 1].sets
    IN  [j \in 1..Len(sets) |->
            [ex_idx |-> ex_idx,
             s_idx |-> j - 1,
             type |-> sets[j].type,
             set_dur |-> SetDur(sets[j]),
             rest_dur |-> RestDur(exercises, ex_idx, j - 1),
             is_warmup |-> sets[j].type = "warmup"]]

RECURSIVE FlattenFrom(_, _)
FlattenFrom(exercises, ex_idx) ==
    IF ex_idx >= Len(exercises) THEN <<>>
    ELSE SetsInfoOf(exercises, ex_idx) \o FlattenFrom(exercises, ex_idx + 1)

\* Mutant: warmup sets are left out of all_sets_info
MutAllSetsInfo(exercises) ==
    SelectSeq(FlattenFrom(exercises, 0), LAMBDA si : ~si.is_warmup)

\* all_sets_info before the offsets are assigned
AllSetsInfo(exercises) == FlattenFrom(exercises, 0)

RECURSIVE IdealTotal(_)
IdealTotal(info) ==
    IF info = <<>> THEN 0
    ELSE Head(info).set_dur + Head(info).rest_dur + IdealTotal(Tail(info))

\* Rationals <<n, d>> with d > 0
RatLess(a, b) == a[1] * b[2] < b[1] * a[2]
RatMin(a, b) == IF RatLess(b, a) THEN b ELSE a
RatMax(a, b) == IF RatLess(a, b) THEN b ELSE a

\* Mutant: the nominal durations are never scaled
MutUnitScale(duration_s, ideal_total) == <<1, 1>>

\* Mutant: the upper clamp is missing
MutScaleFactor(duration_s, ideal_total) ==
    IF ideal_total > 0
    THEN RatMax(<<MIN_SCALE_NUM, MIN_SCALE_DEN>>, <<duration_s, ideal_total>>)
    ELSE <<1, 1>>

\* scale = max(_MIN_SCALE, min(_MAX_SCALE, duration_s / ideal_total)), else 1.0
ScaleFactor(duration_s, ideal_total) ==
    IF ideal_total > 0
    THEN RatMax(<<MIN_SCALE_NUM, MIN_SCALE_DEN>>,
                RatMin(<<MAX_SCALE, 1>>, <<duration_s, ideal_total>>))
    ELSE <<1, 1>>

RECURSIVE AssignOffsets(_, _, _)
\* start_offset_s / end_offset_s of every set, as numerators over scale[2];
\* cursor is the numerator of cursor_s
AssignOffsets(info, scale, cursor) ==
    IF info = <<>> THEN <<>>
    ELSE LET si == Head(info)
             scaled_set == si.set_dur * scale[1]
             endc == cursor + scaled_set
         IN  <<[ex_idx |-> si.ex_idx, s_idx |-> si.s_idx, type |-> si.type,
                set_dur |-> si.set_dur, rest_dur |-> si.rest_dur,
                is_warmup |-> si.is_warmup,
                start_offset |-> cursor, end_offset |-> endc]>>
             \o AssignOffsets(Tail(info), scale,
                              endc + si.rest_dur * scale[1])

\* round(x * 1000) for x = n / den seconds
OffsetMs(n, den) == (n \div den) * 1000 + PyRound((n % den) * 1000, den)

\* The RecordMessages: heart rate spread over the duration
HrRecords(hr_samples, start_ms, duration_s) ==
    LET n == Len(hr_samples)
        hr_interval_ms == IF n = 1 THEN 0 ELSE PyRound(duration_s * 1000, n - 1)
    IN  [i \in 1..n |->
            [ms |-> start_ms + (IF n > 1 THEN (i - 1) * hr_interval_ms ELSE 0),
             type |-> "record", set_type |-> "none",
             heart_rate |-> <<hr_samples[i]>>,
             start_time |-> <<>>, message_index |-> <<>>, ex_idx |-> <<>>]]

RECURSIVE SetMessages(_, _, _, _)
\* The SetMessages of the sets from info on: an active one per set and a rest
\* one when rest_dur > 0
SetMessages(info, scale, start_ms, msg_index) ==
    IF info = <<>> THEN <<>>
    ELSE LET si == Head(info)
             set_start_ms == start_ms + OffsetMs(si.start_offset, scale[2])
             set_end_ms == start_ms + OffsetMs(si.end_offset, scale[2])
             active == [ms |-> set_end_ms, type |-> "set", set_type |-> "active",
                        heart_rate |-> <<>>, start_time |-> <<set_start_ms>>,
                        message_index |-> <<msg_index>>, ex_idx |-> <<si.ex_idx>>]
             rest_end_ms ==
                 set_end_ms + PyRound(si.rest_dur * scale[1] * 1000, scale[2])
             rest == [ms |-> rest_end_ms, type |-> "set", set_type |-> "rest",
                      heart_rate |-> <<>>, start_time |-> <<set_end_ms>>,
                      message_index |-> <<msg_index + 1>>, ex_idx |-> <<si.ex_idx>>]
         IN  IF si.rest_dur > 0
             THEN <<active, rest>>
                  \o SetMessages(Tail(info), scale, start_ms, msg_index + 2)
             ELSE <<active>>
                  \o SetMessages(Tail(info), scale, start_ms, msg_index + 1)

\* Mutant: the tie-break is inverted
MutTimelineRank(e) == IF e.type = "record" THEN 1 ELSE 0

\* The sort key's second component: 0 if x[1] == "record" else 1
TimelineRank(e) == IF e.type = "record" THEN 0 ELSE 1

KeyLess(a, b) ==
    \/ a.ms < b.ms
    \/ a.ms = b.ms /\ TimelineRank(a) < TimelineRank(b)

RECURSIVE InsertSorted(_, _)
InsertSorted(s, e) ==
    IF s = <<>> THEN <<e>>
    ELSE IF KeyLess(e, Head(s)) THEN <<e>> \o s
    ELSE <<Head(s)>> \o InsertSorted(Tail(s), e)

RECURSIVE StableSort(_)
StableSort(s) ==
    IF s = <<>> THEN <<>>
    ELSE InsertSorted(StableSort(SubSeq(s, 1, Len(s) - 1)), s[Len(s)])

\* timeline.sort(key=lambda x: (x[0], 0 if x[1] == "record" else 1)): stable
SortTimeline(timeline) == StableSort(timeline)

-----------------------------------------------------------------------------
(* exercise_mapper.py *)

UNKNOWN_CATEGORY == 65534
UNKNOWN_SUBCATEGORY == 0

\* An excerpt of the static table HEVY_TO_GARMIN
HEVY_TO_GARMIN ==
    [name \in {"Bench Press (Barbell)", "Lateral Raise (Dumbbell)",
               "Squat (Barbell)", "Lying Neck Curls", "Running"} |->
        CASE name = "Bench Press (Barbell)" -> <<0, 1>>
          [] name = "Lateral Raise (Dumbbell)" -> <<14, 11>>
          [] name = "Squat (Barbell)" -> <<28, 6>>
          [] name = "Lying Neck Curls" -> <<65534, 0>>
          [] name = "Running" -> <<32, 0>>]

\* HEVY_TO_GARMIN.get(hevy_name, (0, 0)): names outside the table get the
\* generic pair instead of the sentinel
MutLookupExercise(hevy_name) ==
    IF hevy_name \in DOMAIN HEVY_TO_GARMIN
    THEN <<HEVY_TO_GARMIN[hevy_name][1], HEVY_TO_GARMIN[hevy_name][2], hevy_name>>
    ELSE <<0, 0, hevy_name>>

\* lookup_exercise(hevy_name) -> (category, subcategory, display_name)
LookupExercise(hevy_name) ==
    IF hevy_name \in DOMAIN HEVY_TO_GARMIN
    THEN <<HEVY_TO_GARMIN[hevy_name][1], HEVY_TO_GARMIN[hevy_name][2], hevy_name>>
    ELSE <<UNKNOWN_CATEGORY, UNKNOWN_SUBCATEGORY, hevy_name>>

-----------------------------------------------------------------------------
(* fit_generator.py: the messages of the file and the returned summary *)

\* round(sum(hr_samples) / len(hr_samples)) if hr_samples else None
AvgHr(hr_samples) ==
    IF hr_samples = <<>> THEN <<>>
    ELSE <<PyRound(SumSeq(hr_samples), Len(hr_samples))>>

MaxHr(hr_samples) ==
    IF hr_samples = <<>> THEN <<>> ELSE <<MaxSeq(hr_samples)>>

\* Mutant: an exercise whose name occurred in an earlier entry gets no record
MutExerciseTitles(exercises) ==
    LET first == SelectSeq([i \in 1..Len(exercises) |-> i],
                           LAMBDA i : \A k \in 1..(i - 1) :
                                         exercises[k].title # exercises[i].title)
    IN  [n \in 1..Len(first) |->
            LET l == LookupExercise(exercises[first[n]].title)
            IN  [msg |-> "exercise_title", message_index |-> first[n] - 1,
                 exercise_category |-> l[1], exercise_name |-> l[2],
                 workout_step_name |-> l[3]]]

\* for ex_idx, ex in enumerate(exercises): one ExerciseTitleMessage each
ExerciseTitles(exercises) ==
    [i \in 1..Len(exercises) |->
        LET l == LookupExercise(exercises[i].title)
        IN  [msg |-> "exercise_title", message_index |-> i - 1,
             exercise_category |-> l[1], exercise_name |-> l[2],
             workout_step_name |-> l[3]]]

\* Mutant: only the heart-rate records of the timeline are added
MutTimelineMsgs(timeline) ==
    LET kept == SelectSeq(timeline, LAMBDA e : e.type = "record")
    IN  [i \in 1..Len(kept) |->
            [msg |-> kept[i].type, timestamp |-> kept[i].ms, event |-> kept[i]]]

\* for _, _, msg in timeline: builder.add(msg)
TimelineMsgs(timeline) ==
    [i \in 1..Len(timeline) |->
        [msg |-> timeline[i].type, timestamp |-> timeline[i].ms,
         event |-> timeline[i]]]

\* generate_fit for a workout whose timestamps parse: every local the later
\* sections read, the messages handed to the builder in order, the summary
FitResult(hevy_workout, hr_arg) ==
    LET hr_samples == IF hr_arg.none THEN <<>> ELSE hr_arg.samples
        start_dt == hevy_workout.start_time
        end_dt == hevy_workout.end_time
        duration_s == end_dt.epoch_s - start_dt.epoch_s
        start_ms == Ms(start_dt.epoch_s)
        end_ms == start_ms + duration_s * 1000
        calories == CalcCalories(hr_samples, duration_s, start_dt.year)
        exercises == hevy_workout.exercises
        flat == AllSetsInfo(exercises)
        ideal_total == IdealTotal(flat)
        scale == ScaleFactor(duration_s, ideal_total)
        all_sets_info == AssignOffsets(flat, scale, 0)
        hr_part == IF hr_samples # <<>>
                   THEN HrRecords(hr_samples, start_ms, duration_s) ELSE <<>>
        timeline == SortTimeline(
                        hr_part \o SetMessages(all_sets_info, scale, start_ms, 0))
        head == <<[msg |-> "file_id", time_created |-> start_ms],
                  [msg |-> "sport"]>>
        tail == <<[msg |-> "event_stop", timestamp |-> end_ms],
                  [msg |-> "lap", timestamp |-> end_ms, start_time |-> start_ms,
                   avg_heart_rate |-> AvgHr(hr_samples),
                   max_heart_rate |-> MaxHr(hr_samples),
                   total_calories |-> calories],
                  [msg |-> "session", timestamp |-> end_ms, start_time |-> start_ms,
                   avg_heart_rate |-> AvgHr(hr_samples),
                   max_heart_rate |-> MaxHr(hr_samples),
                   total_calories |-> calories],
                  [msg |-> "activity", timestamp |-> end_ms, type |-> "manual"]>>
    IN  [raised |-> FALSE,
         written |-> TRUE,
         ideal_total |-> ideal_total,
         scale |-> scale,
         all_sets_info |-> all_sets_info,
         timeline |-> timeline,
         file |-> head \o ExerciseTitles(exercises)
                  \o <<[msg |-> "event_start", timestamp |-> start_ms]>>
                  \o TimelineMsgs(timeline) \o tail,
         summary |-> <<[exercises |-> Len(exercises),
                        total_sets |-> Len(all_sets_info),
                        hr_samples |-> Len(hr_samples),
                        calories |-> calories,
                        avg_hr |-> AvgHr(hr_samples),
                        duration_s |-> duration_s]>>]

\* What a call that has not returned, or that raised before the file was
\* written, leaves: no file, no summary
NoResult(raised) ==
    [raised |-> raised, written |-> FALSE, ideal_total |-> 0, scale |-> <<1, 1>>,
     all_sets_info |-> <<>>, timeline |-> <<>>, file |-> <<>>, summary |-> <<>>]

\* generate_fit(hevy_workout, hr_samples, output_path)
GenerateFitResult(hevy_workout, hr_arg) ==
    IF ParseOk(hevy_workout.start_time) /\ ParseOk(hevy_workout.end_time)
    THEN FitResult(hevy_workout, hr_arg)
    ELSE NoResult(TRUE)

\* The output paths of the model
OutputPaths == {"fit_output/a.fit", "fit_output/b.fit"}

NoFiles == [p \in OutputPaths |-> <<>>]

\* Mutant: the file is opened for appending
MutToFile(disk, output_path, records) ==
    [disk EXCEPT ![output_path] = @ \o records]

\* builder.build().to_file(output_path): the file is created or overwritten
ToFile(disk, output_path, records) ==
    [disk EXCEPT ![output_path] = records]

-----------------------------------------------------------------------------
(* activity_replacer.py: constants *)

FALLBACK_HR_WINDOW == 10
MIN_EXERCISE_HR == 65
\* [avg_hr] * 30 and [_DEFAULT_HR_BPM] * 30
SYNTHETIC_SAMPLES == 30

-----------------------------------------------------------------------------
(* activity_replacer.py: get_daily_hr_for_window and resolve_hr_samples *)

\* hevy_workout.get("start_time", "") is falsy when the key is missing or empty
Truthy(raw) == raw.form \notin {"missing", "empty"}

\* The guard on one entry of heartRateValues.  An entry is a list of at least
\* two items ("pair"), a shorter list ("short") or no list at all ("scalar");
\* ts and hr are <<>> for None.
EntryInWindow(entry, start_ms, end_ms) ==
    /\ entry.shape = "pair"
    /\ entry.ts # <<>>
    /\ entry.hr # <<>>
    /\ start_ms <= entry.ts[1]
    /\ entry.ts[1] <= end_ms

RECURSIVE ValuesInWindow(_, _, _)
ValuesInWindow(entries, start_ms, end_ms) ==
    IF entries = <<>> THEN <<>>
    ELSE (IF EntryInWindow(Head(entries), start_ms, end_ms)
          THEN <<Head(entries).hr[1]>> ELSE <<>>)
         \o ValuesInWindow(Tail(entries), start_ms, end_ms)

\* raw.get("heartRateValues") or []
HeartRateValues(raw) == IF raw.has_values THEN raw.heartRateValues ELSE <<>>

RECURSIVE DailyHrOfRows(_, _, _)
DailyHrOfRows(rows, start_ms, end_ms) ==
    IF rows = <<>> THEN <<>>
    ELSE ValuesInWindow(HeartRateValues(Head(rows).raw_json), start_ms, end_ms)
         \o DailyHrOfRows(Tail(rows), start_ms, end_ms)

\* WHERE endpoint_name = 'heart_rates' AND date IN (day before, day, day after);
\* date_off is the row's date minus the workout's UTC date
RowsToCheck(garmin_raw_data) ==
    SelectSeq(garmin_raw_data, LAMBDA r : r.date_off \in {-1, 0, 1})

\* get_daily_hr_for_window(conn, start_utc, end_utc), both timestamps parsing
GetDailyHrForWindow(garmin_raw_data, start_utc, end_utc) ==
    DailyHrOfRows(RowsToCheck(garmin_raw_data),
                  Ms(start_utc.epoch_s), Ms(end_utc.epoch_s))

\* Mutant: the threshold test is strict
MutMeetsExerciseHr(hr) == SumSeq(hr) > MIN_EXERCISE_HR * Len(hr)

\* avg = sum(hr) / len(hr); avg >= _MIN_EXERCISE_HR
MeetsExerciseHr(hr) == SumSeq(hr) >= MIN_EXERCISE_HR * Len(hr)

\* window = recent_hr_avgs[:_FALLBACK_HR_WINDOW]
FallbackWindow(recent_hr_avgs) ==
    SubSeq(recent_hr_avgs, 1,
           IF Len(recent_hr_avgs) < FALLBACK_HR_WINDOW
           THEN Len(recent_hr_avgs) ELSE FALLBACK_HR_WINDOW)

\* The fallback tiers.  The historical averages are floats: the model keeps
\* them in tenths of a beat.
FallbackSamples(recent_hr_avgs) ==
    IF Len(recent_hr_avgs) >= 1
    THEN LET window == FallbackWindow(recent_hr_avgs)
             avg_hr == PyRound(SumSeq(window), 10 * Len(window))
         IN  [samples |-> [i \in 1..SYNTHETIC_SAMPLES |-> avg_hr],
              source |-> [name |-> "avg", n |-> Len(window)]]
    ELSE [samples |-> [i \in 1..SYNTHETIC_SAMPLES |-> DEFAULT_HR_BPM],
          source |-> [name |-> "static", n |-> 0]]

HrResult(raised, fetched, hr, r) ==
    [raised |-> raised, fetched |-> fetched, hr |-> hr,
     samples |-> r.samples, source |-> r.source]

NoHr == [samples |-> <<>>, source |-> [name |-> "", n |-> 0]]

\* resolve_hr_samples(conn, hevy_workout, recent_hr_avgs).  datetime.fromisoformat
\* raises ValueError on a timestamp that does not parse.
ResolveHrSamples(garmin_raw_data, hevy_workout, recent_hr_avgs) ==
    LET start == hevy_workout.start_time
        end == hevy_workout.end_time
    IN  IF Truthy(start) /\ Truthy(end)
        THEN IF ~(ParseOk(start) /\ ParseOk(end))
             THEN HrResult(TRUE, FALSE, <<>>, NoHr)
             ELSE LET hr == GetDailyHrForWindow(garmin_raw_data, start, end)
                  IN  IF hr # <<>> /\ MeetsExerciseHr(hr)
                      THEN HrResult(FALSE, TRUE, hr,
                                    [samples |-> hr,
                                     source |-> [name |-> "daily", n |-> 0]])
                      ELSE HrResult(FALSE, TRUE, hr, FallbackSamples(recent_hr_avgs))
        ELSE HrResult(FALSE, FALSE, <<>>, FallbackSamples(recent_hr_avgs))

HrIdle ==
    /\ hr_in = <<>>
    /\ hr_pc = "idle"
    /\ hr_out = HrResult(FALSE, FALSE, <<>>, NoHr)

-----------------------------------------------------------------------------
(* db.py and router.py *)

LogRow(source_platform, source_id, destination, status) ==
    [source_platform |-> source_platform, source_id |-> source_id,
     destination |-> destination, status |-> status]

\* Mutant: any logged attempt counts, whatever its status
MutWasAlreadySynced(log, source_platform, source_id, destination) ==
    \E row \in log :
        /\ row.source_platform = source_platform
        /\ row.source_id = source_id
        /\ row.destination = destination

\* was_already_synced: SELECT COUNT(*) ... AND status = 'sent' is > 0
WasAlreadySynced(log, source_platform, source_id, destination) ==
    \E row \in log :
        /\ row.source_platform = source_platform
        /\ row.source_id = source_id
        /\ row.destination = destination
        /\ row.status = "sent"

\* Mutant: the anti-loop test is missing
MutShouldSync(log, source_platform, destination, conn, source_id) ==
    ~(/\ conn
      /\ source_id # <<>>
      /\ WasAlreadySynced(log, source_platform, source_id[1], destination))

\* should_sync(source_platform, destination, conn=None, source_id=None);
\* conn is TRUE for a connection (reading log), source_id is <<>> for None
ShouldSync(log, source_platform, destination, conn, source_id) ==
    IF source_platform = destination THEN FALSE
    ELSE IF conn /\ source_id # <<>>
            /\ WasAlreadySynced(log, source_platform, source_id[1], destination)
         THEN FALSE
    ELSE TRUE

\* match_rules(rules, source_platform, activity_type)
MatchRules(rules, source_platform, activity_type) ==
    SelectSeq(rules, LAMBDA rule :
        /\ rule.source_platform = source_platform
        /\ (rule.activity_type = "*" \/ rule.activity_type = activity_type))

\* workout.get("hevy_id") or workout.get("activity_id")
\*     or str(workout.get("source_id", ""));  a key is <<>> when absent
SourceId(workout) ==
    IF workout.hevy_id # <<>> /\ workout.hevy_id[1] # "" THEN workout.hevy_id[1]
    ELSE IF workout.activity_id # <<>> /\ workout.activity_id[1] # ""
         THEN workout.activity_id[1]
    ELSE IF workout.source_id # <<>> THEN workout.source_id[1]
    ELSE ""

RECURSIVE NextPos(_, _, _)
\* The next (rule, destination) position at or after (r, d) that exists, or
\* the position after the last rule
NextPos(matched, r, d) ==
    IF r > Len(matched) THEN <<r, 1>>
    ELSE IF d > Len(matched[r].destinations) THEN NextPos(matched, r + 1, 1)
    ELSE <<r, d>>

RouteIdle ==
    /\ route_in = <<>>
    /\ route_pc = "idle"
    /\ route_st = <<>>
    /\ sync_log = {}

FitIdle ==
    /\ fit_in = <<>>
    /\ fit_pc = "idle"
    /\ fit_out = NoResult(FALSE)
    /\ fit_disk = NoFiles
    /\ fit_log = <<>>

EnrichIdle ==
    /\ enr_in = <<>>
    /\ enr_pc = "idle"
    /\ enr_st = <<>>

PushIdle ==
    /\ push_in = <<>>
    /\ push_pc = "idle"
    /\ push_st = <<>>

CallIdle ==
    /\ call_in = <<>>
    /\ call_pc = "idle"
    /\ call_out = <<>>

BackfillIdle ==
    /\ bf_db = <<>>
    /\ bf_pc = "idle"
    /\ bf_st = <<>>

ReconIdle ==
    /\ rec_in = <<>>
    /\ rec_pc = "idle"
    /\ rec_st = <<>>

\* No call of any other component is under way
IdleExceptFit ==
    HrIdle /\ RouteIdle /\ EnrichIdle /\ PushIdle
      /\ CallIdle /\ BackfillIdle /\ ReconIdle
IdleExceptHr ==
    FitIdle /\ RouteIdle /\ EnrichIdle /\ PushIdle
      /\ CallIdle /\ BackfillIdle /\ ReconIdle
IdleExceptRoute ==
    FitIdle /\ HrIdle /\ EnrichIdle /\ PushIdle
      /\ CallIdle /\ BackfillIdle /\ ReconIdle
IdleExceptEnrich ==
    FitIdle /\ HrIdle /\ RouteIdle /\ PushIdle
      /\ CallIdle /\ BackfillIdle /\ ReconIdle
IdleExceptPush ==
    FitIdle /\ HrIdle /\ RouteIdle /\ EnrichIdle
      /\ CallIdle /\ BackfillIdle /\ ReconIdle
IdleExceptCall ==
    FitIdle /\ HrIdle /\ RouteIdle /\ EnrichIdle
      /\ PushIdle /\ BackfillIdle /\ ReconIdle
IdleExceptBackfill ==
    FitIdle /\ HrIdle /\ RouteIdle /\ EnrichIdle
      /\ PushIdle /\ CallIdle /\ ReconIdle
IdleExceptRecon ==
    FitIdle /\ HrIdle /\ RouteIdle /\ EnrichIdle
      /\ PushIdle /\ CallIdle /\ BackfillIdle

-----------------------------------------------------------------------------
(* Inputs of generate_fit *)

MaxExercises == 2
MaxSets == 2

\* The workout of tests/test_fit_generator.py starts at T and lasts an hour
Timestamp(form, epoch_s) == [form |-> form, epoch_s |-> epoch_s, year |-> 2026]
StartInstant == 1000
Durations == {-60, 0, 5, 6, 80, 3600}

FamilyTitles ==
    <<"Bench Press (Barbell)", "Zercher Carry", "Bench Press (Barbell)",
      "Lateral Raise (Dumbbell)">>
TitleAt(i) == FamilyTitles[((i - 1) % Len(FamilyTitles)) + 1]

SetOf(type) == [type |-> type]
SetLists == [s \in SeqsUpTo({"warmup", "normal"}, MaxSets) |->
                [j \in 1..Len(s) |-> SetOf(s[j])]]

\* Every exercise list of up to MaxExercises entries of up to MaxSets sets
FamilyExercises ==
    {[i \in 1..Len(e) |-> [title |-> TitleAt(i), sets |-> SetLists[e[i]]]] :
        e \in SeqsUpTo(SeqsUpTo({"warmup", "normal"}, MaxSets), MaxExercises)}

\* SAMPLE_HEVY_WORKOUT of tests/test_fit_generator.py
SampleExercises ==
    <<[title |-> "Bench Press (Barbell)",
       sets |-> <<SetOf("warmup"), SetOf("normal"), SetOf("normal")>>],
      [title |-> "Lateral Raise (Dumbbell)", sets |-> <<SetOf("normal")>>]>>

\* Set types other than warmup and normal
OtherKindExercises ==
    {<<[title |-> "Squat (Barbell)", sets |-> <<SetOf(k)>>]>> :
        k \in {"dropset", "failure"}}
    \cup {<<[title |-> "Squat (Barbell)",
             sets |-> <<SetOf("dropset"), SetOf("warmup")>>],
            [title |-> "Squat (Barbell)", sets |-> <<SetOf("failure")>>]>>}

ExerciseLists == FamilyExercises \cup {SampleExercises} \cup OtherKindExercises

Workouts ==
    {[start_time |-> Timestamp("iso", StartInstant),
      end_time |-> Timestamp("iso", StartInstant + d),
      exercises |-> e] : d \in Durations, e \in ExerciseLists}

\* Workouts in the other timestamp forms: the Garmin space-separated form,
\* and a start or end timestamp that is missing or does not parse
OtherFormWorkouts ==
    {[start_time |-> Timestamp(f[1], StartInstant),
      end_time |-> Timestamp(f[2], StartInstant + 3600),
      exercises |-> SampleExercises] :
        f \in {<<"bad", "iso">>, <<"iso", "bad">>, <<"missing", "iso">>,
               <<"iso", "missing">>, <<"empty", "iso">>, <<"space", "space">>}}

SAMPLE_HR == <<110, 115, 120, 125, 130>>

HrArgs ==
    {[none |-> TRUE, samples |-> <<>>]}
    \cup {[none |-> FALSE, samples |-> h] :
            h \in {<<>>, <<120>>, <<64, 67>>, <<100, 100, 100>>,
                   <<90, 95, 100, 105>>, SAMPLE_HR}}

-----------------------------------------------------------------------------
(* The generate_fit call as a state machine *)

FitInit ==
    /\ fit_in \in [hevy_workout : Workouts \cup OtherFormWorkouts, hr_samples : HrArgs,
                    output_path : {"fit_output/a.fit"}]
    /\ fit_pc = "call"
    /\ fit_out = NoResult(FALSE)
    /\ fit_disk = NoFiles
    /\ fit_log = <<>>
    /\ IdleExceptFit

GenerateFit ==
    /\ fit_pc = "call"
    /\ fit_out' = GenerateFitResult(fit_in.hevy_workout, fit_in.hr_samples)
    /\ fit_pc' = IF fit_out'.raised THEN "raised" ELSE "done"
    /\ fit_disk' = IF fit_out'.written
                   THEN ToFile(fit_disk, fit_in.output_path, fit_out'.file)
                   ELSE fit_disk
    /\ fit_log' = Append(fit_log, [args |-> fit_in, out |-> fit_out',
                                   before |-> fit_disk, after |-> fit_disk'])
    /\ UNCHANGED <<fit_in, except_fit>>

FitNext == GenerateFit

FitSpec == FitInit /\ [][FitNext]_vars

-----------------------------------------------------------------------------
(* A run of several generate_fit calls, as the loop of main makes them       *)
(* through process_workout                                                 *)

MaxCalls == 3

RunWorkouts ==
    {[start_time |-> Timestamp("iso", StartInstant),
      end_time |-> Timestamp("iso", StartInstant + 3600),
      exercises |-> SampleExercises],
     [start_time |-> Timestamp("iso", StartInstant),
      end_time |-> Timestamp("iso", StartInstant + 5),
      exercises |-> <<>>],
     [start_time |-> Timestamp("iso", StartInstant),
      end_time |-> Timestamp("bad", StartInstant + 3600),
      exercises |-> SampleExercises],
     [start_time |-> Timestamp("missing", StartInstant),
      end_time |-> Timestamp("iso", StartInstant + 3600),
      exercises |-> SampleExercises]}

RunArgs ==
    [hevy_workout : RunWorkouts,
     hr_samples : {[none |-> TRUE, samples |-> <<>>],
                   [none |-> FALSE, samples |-> SAMPLE_HR]},
     output_path : OutputPaths]

FitRunInit ==
    /\ fit_in \in RunArgs
    /\ fit_pc = "call"
    /\ fit_out = NoResult(FALSE)
    /\ fit_disk = NoFiles
    /\ fit_log = <<>>
    /\ IdleExceptFit

\* The caller goes on to its next workout
NextCall ==
    /\ fit_pc \in {"done", "raised"}
    /\ Len(fit_log) < MaxCalls
    /\ fit_in' \in RunArgs
    /\ fit_pc' = "call"
    /\ fit_out' = NoResult(FALSE)
    /\ UNCHANGED <<fit_disk, fit_log, except_fit>>

FitRunNext == GenerateFit \/ NextCall

FitRunSpec == FitRunInit /\ [][FitRunNext]_vars

-----------------------------------------------------------------------------
(* Inputs of resolve_hr_samples *)

MaxEntries == 2
MaxHist == 11

WindowStartMs == Ms(StartInstant)
WindowEndMs == Ms(StartInstant + 3600)

Entry(shape, ts, hr) == [shape |-> shape, ts |-> ts, hr |-> hr]

\* Readings at the window's start, inside it and at its end; readings just
\* outside it; entries with a None, too short, or not a list
EntryKinds ==
    {Entry("pair", <<WindowStartMs>>, <<64>>),
     Entry("pair", <<WindowStartMs + 60000>>, <<65>>),
     Entry("pair", <<WindowEndMs>>, <<66>>),
     Entry("pair", <<WindowStartMs - 1>>, <<200>>),
     Entry("pair", <<WindowEndMs + 1>>, <<200>>),
     Entry("pair", <<>>, <<200>>),
     Entry("pair", <<WindowStartMs + 60000>>, <<>>),
     Entry("short", <<WindowStartMs>>, <<>>),
     Entry("scalar", <<>>, <<>>)}

Row(date_off, has_values, entries) ==
    [date_off |-> date_off,
     raw_json |-> [has_values |-> has_values, heartRateValues |-> entries]]

Reading(hr) == Entry("pair", <<WindowStartMs + 60000>>, <<hr>>)

\* One row for the workout's date holding up to MaxEntries entries
RowFamily == {<<Row(0, TRUE, es)>> : es \in SeqsUpTo(EntryKinds, MaxEntries)}

\* No row, a row without heartRateValues, rows of the neighbouring dates, rows
\* of dates the query does not select
OtherRows ==
    {<<>>,
     <<Row(0, FALSE, <<>>)>>,
     <<Row(-1, TRUE, <<Reading(66)>>), Row(1, TRUE, <<Reading(64)>>)>>,
     <<Row(2, TRUE, <<Reading(200)>>), Row(0, TRUE, <<Reading(64)>>)>>,
     <<Row(-2, TRUE, <<Reading(200)>>)>>,
     <<Row(0, TRUE, <<Reading(110), Reading(130)>>)>>}

\* Historical averages, in tenths of a beat: k times a, then b up to length n
HistFamily ==
    {[i \in 1..n |-> IF i <= k THEN ab[1] ELSE ab[2]] :
        n \in 0..MaxHist, k \in 0..MaxHist, ab \in {<<1500, 1310>>, <<1405, 700>>}}

OtherHists == {<<>>, <<1500, 1400, 1300>>, <<1415>>}

TimestampForms ==
    {<<"iso", "iso">>, <<"missing", "iso">>, <<"iso", "empty">>,
     <<"empty", "empty">>, <<"bad", "iso">>, <<"iso", "bad">>,
     <<"bad", "missing">>}

HrWorkouts ==
    {[start_time |-> Timestamp(f[1], StartInstant),
      end_time |-> Timestamp(f[2], StartInstant + 3600),
      exercises |-> SampleExercises] : f \in TimestampForms}

HrInputs ==
    [hevy_workout : HrWorkouts, garmin_raw_data : RowFamily \cup OtherRows,
     recent_hr_avgs : OtherHists]
    \cup [hevy_workout : HrWorkouts, garmin_raw_data : OtherRows,
          recent_hr_avgs : HistFamily]

-----------------------------------------------------------------------------
(* The resolve_hr_samples call as a state machine *)

HrInit ==
    /\ hr_in \in HrInputs
    /\ hr_pc = "call"
    /\ hr_out = HrResult(FALSE, FALSE, <<>>, NoHr)
    /\ IdleExceptHr

CallResolveHrSamples ==
    /\ hr_pc = "call"
    /\ hr_out' = ResolveHrSamples(hr_in.garmin_raw_data, hr_in.hevy_workout,
                                  hr_in.recent_hr_avgs)
    /\ hr_pc' = IF hr_out'.raised THEN "raised" ELSE "done"
    /\ UNCHANGED <<hr_in, except_hr>>

HrNext == CallResolveHrSamples

HrSpec == HrInit /\ [][HrNext]_vars

-----------------------------------------------------------------------------
(* activity_replacer.py: enrich_new_workouts *)

\* [float of the average in tenths of a beat, the day of its workout]
HistEntry(avg, day) == [avg |-> avg, day |-> day]

AvgsOf(recent) == [k \in 1..Len(recent) |-> recent[k].avg]

\* if hr_source == "daily" and avg_hr and avg_hr >= _MIN_EXERCISE_HR:
\*     recent_hr_avgs.insert(0, float(avg_hr))
KeepUpToDate(recent, hr_source, avg_hr, day) ==
    IF hr_source.name = "daily" /\ avg_hr # 0 /\ avg_hr >= MIN_EXERCISE_HR
    THEN <<HistEntry(10 * avg_hr, day)>> \o recent
    ELSE recent

\* One iteration of "for w in to_enrich": the locals after it.  An exception
\* in the body is caught and the loop goes on with the next workout.
EnrichOne(st, w) ==
    LET old_source == w.old
        by_gmt == IF old_source # <<>> /\ w.gmt_hr # <<>> /\ MeetsExerciseHr(w.gmt_hr)
                  THEN w.gmt_hr ELSE <<>>
        resolve == by_gmt = <<>>
        r == ResolveHrSamples(w.garmin_raw_data, w.hevy_workout, AvgsOf(st.recent))
        hr_samples == IF resolve THEN r.samples ELSE by_gmt
        hr_source == IF resolve THEN r.source ELSE [name |-> "daily", n |-> 0]
        avg_hr == PyRound(SumSeq(hr_samples), Len(hr_samples))
        called == IF resolve THEN Append(st.calls, st.recent) ELSE st.calls
        next == [st EXCEPT !.i = @ + 1, !.calls = called]
    IN  IF resolve /\ r.raised THEN next
        ELSE IF old_source # <<>> /\ hr_source = old_source[1] THEN next
        ELSE IF ~Truthy(w.hevy_workout.start_time) \/ ~Truthy(w.hevy_workout.end_time)
             THEN next
        ELSE [next EXCEPT
                !.enriched = @ + 1,
                !.recent = KeepUpToDate(@, hr_source, avg_hr, w.day)]

-----------------------------------------------------------------------------
(* Inputs of enrich_new_workouts *)

MaxEnrich == 3
DaySeconds == 86400

\* What a workout's monitoring data and timestamps are like
EnrichKinds == {"high", "low", "none", "bad", "missing", "gmt"}

\* The enrichment row a workout already has: none (a new workout), or one with
\* a fallback source (a stale workout)
OldSources == {<<>>, <<[name |-> "static", n |-> 0]>>, <<[name |-> "avg", n |-> 1]>>}

EnrichWorkout(day, kind, old) ==
    LET start_s == StartInstant + day * DaySeconds
        reading(hr) == Entry("pair", <<Ms(start_s) + 60000>>, <<hr>>)
    IN  [day |-> day,
         old |-> old,
         hevy_workout |->
            [start_time |-> Timestamp(IF kind = "missing" THEN "missing" ELSE "iso",
                                      start_s),
             end_time |-> Timestamp(IF kind = "bad" THEN "bad" ELSE "iso",
                                    start_s + 3600),
             exercises |-> SampleExercises],
         garmin_raw_data |->
            CASE kind = "high" -> <<Row(0, TRUE, <<reading(70), reading(73)>>)>>
              [] kind = "low" -> <<Row(0, TRUE, <<reading(60)>>)>>
              [] OTHER -> <<>>,
         gmt_hr |-> IF kind = "gmt" THEN <<80, 82>> ELSE <<>>]

\* to_enrich = new_workouts + stale_workouts, each group newest first as
\* get_all_hevy_workouts orders them (ORDER BY start_time DESC)
ToEnrichLists ==
    {[p \in 1..Len(ks) |->
        EnrichWorkout(IF ks[p][2] = <<>> THEN 10 - p ELSE 6 - p, ks[p][1], ks[p][2])] :
        ks \in {k \in SeqsUpTo(EnrichKinds \X OldSources, MaxEnrich) :
                    /\ \A a, b \in 1..Len(k) :
                        (a < b /\ k[a][2] # <<>>) => k[b][2] # <<>>
                    /\ \A a \in 1..Len(k) : k[a][1] = "gmt" => k[a][2] # <<>>}}

\* SELECT avg_hr ... WHERE hr_source = 'daily' AND avg_hr >= 65
\* ORDER BY workout_date DESC LIMIT 10
StoredAverages ==
    {<<>>,
     <<HistEntry(1500, 7)>>,
     <<HistEntry(1400, 8), HistEntry(1310, 3)>>}

-----------------------------------------------------------------------------
(* The enrich_new_workouts run as a state machine: one step per workout *)

EnrichInit ==
    /\ enr_in \in [to_enrich : ToEnrichLists, stored : StoredAverages]
    /\ enr_pc = "loop"
    /\ enr_st = [i |-> 1, recent |-> enr_in.stored, calls |-> <<>>, enriched |-> 0]
    /\ IdleExceptEnrich

EnrichWorkoutStep ==
    /\ enr_pc = "loop"
    /\ enr_st.i <= Len(enr_in.to_enrich)
    /\ enr_st' = EnrichOne(enr_st, enr_in.to_enrich[enr_st.i])
    /\ UNCHANGED <<enr_in, enr_pc, except_enrich>>

\* return enriched
EnrichReturn ==
    /\ enr_pc = "loop"
    /\ enr_st.i > Len(enr_in.to_enrich)
    /\ enr_pc' = "returned"
    /\ UNCHANGED <<enr_in, enr_st, except_enrich>>

EnrichNext == EnrichWorkoutStep \/ EnrichReturn

EnrichSpec == EnrichInit /\ [][EnrichNext]_vars

-----------------------------------------------------------------------------
(* Runs of enrich_new_workouts one after another over the same workouts, the
   workout_enrichment table kept between them.  enr_in.workouts are the Hevy
   workouts newest first; enr_st.kinds says what monitoring data each has by
   now, enr_st.table holds the row of each (<<>>: none), enr_st.rewrites the
   rows written over an existing row, with the source they replaced. *)

MaxEnrichRuns == 3

\* The row upsert_workout_enrichment writes in one iteration of the loop, <<>>
\* when the iteration ends at a continue or in the except branch
EnrichRow(st, w) ==
    LET old_source == w.old
        by_gmt == IF old_source # <<>> /\ w.gmt_hr # <<>> /\ MeetsExerciseHr(w.gmt_hr)
                  THEN w.gmt_hr ELSE <<>>
        resolve == by_gmt = <<>>
        r == ResolveHrSamples(w.garmin_raw_data, w.hevy_workout, AvgsOf(st.recent))
        hr_samples == IF resolve THEN r.samples ELSE by_gmt
        hr_source == IF resolve THEN r.source ELSE [name |-> "daily", n |-> 0]
    IN  IF resolve /\ r.raised THEN <<>>
        ELSE IF old_source # <<>> /\ hr_source = old_source[1] THEN <<>>
        ELSE IF ~Truthy(w.hevy_workout.start_time) \/ ~Truthy(w.hevy_workout.end_time)
             THEN <<>>
        ELSE <<[hr_source |-> hr_source,
                avg_hr |-> PyRound(SumSeq(hr_samples), Len(hr_samples)),
                day |-> w.day]>>

\* SELECT avg_hr FROM workout_enrichment WHERE hr_source = 'daily' AND
\* avg_hr >= 65 ORDER BY workout_date DESC (the workouts are listed newest first)
RECURSIVE RecentFromTable(_, _)
RecentFromTable(table, k) ==
    IF k > Len(table) THEN <<>>
    ELSE (IF /\ table[k] # <<>>
             /\ table[k][1].hr_source.name = "daily"
             /\ table[k][1].avg_hr >= MIN_EXERCISE_HR
          THEN <<HistEntry(10 * table[k][1].avg_hr, table[k][1].day)>>
          ELSE <<>>) \o RecentFromTable(table, k + 1)

\* new_workouts + stale_workouts, as positions in the list of workouts
ToEnrichOf(table) ==
    SelectSeq([k \in 1..Len(table) |-> k], LAMBDA k : table[k] = <<>>)
    \o SelectSeq([k \in 1..Len(table) |-> k],
                 LAMBDA k : table[k] # <<>> /\ table[k][1].hr_source.name # "daily")

\* "for w in to_enrich" from position p on: the table and the rewrites after it
RECURSIVE EnrichLoop(_, _, _, _, _, _)
EnrichLoop(st, existing, table, rewrites, to_enrich, p) ==
    IF p > Len(to_enrich) THEN [table |-> table, rewrites |-> rewrites]
    ELSE LET k == to_enrich[p]
             old == IF existing[k] = <<>> THEN <<>> ELSE <<existing[k][1].hr_source>>
             w == EnrichWorkout(enr_in.workouts[k].day, enr_st.kinds[k], old)
             row == EnrichRow(st, w)
         IN  EnrichLoop(EnrichOne(st, w), existing,
                        IF row = <<>> THEN table ELSE [table EXCEPT ![k] = row],
                        IF row # <<>> /\ old # <<>>
                        THEN Append(rewrites, [k |-> k, old |-> old[1],
                                               new |-> row[1].hr_source])
                        ELSE rewrites,
                        to_enrich, p + 1)

EnrichRunsInit ==
    /\ enr_in = [workouts |-> [k \in 1..MaxEnrich |-> [day |-> MaxEnrich + 1 - k]]]
    /\ enr_pc = "between"
    /\ enr_st \in [kinds : [1..MaxEnrich -> {"high", "none", "bad", "missing"}],
                    table : {[k \in 1..MaxEnrich |-> <<>>]},
                    rewrites : {<<>>},
                    runs : {0}]
    /\ IdleExceptEnrich

\* one run of enrich_new_workouts, from reading the table to its return
EnrichRun ==
    /\ enr_pc = "between"
    /\ enr_st.runs < MaxEnrichRuns
    /\ LET st == [i |-> 1, recent |-> RecentFromTable(enr_st.table, 1),
                  calls |-> <<>>, enriched |-> 0]
           run == EnrichLoop(st, enr_st.table, enr_st.table, enr_st.rewrites,
                             ToEnrichOf(enr_st.table), 1)
       IN  enr_st' = [enr_st EXCEPT !.table = run.table,
                                    !.rewrites = run.rewrites,
                                    !.runs = @ + 1]
    /\ UNCHANGED <<enr_in, enr_pc, except_enrich>>

\* between two runs the Garmin sync stores monitoring data of a workout: at
\* exercise level, at resting level, or found through the Garmin activity
DataArrives ==
    /\ enr_pc = "between"
    /\ enr_st.runs < MaxEnrichRuns
    /\ \E k \in 1..MaxEnrich, kind \in {"high", "low", "gmt"} :
          /\ enr_st.kinds[k] = "none"
          /\ kind = "gmt" => enr_st.table[k] # <<>>
          /\ enr_st' = [enr_st EXCEPT !.kinds[k] = kind]
    /\ UNCHANGED <<enr_in, enr_pc, except_enrich>>

EnrichRunsNext == EnrichRun \/ DataArrives

EnrichRunsSpec == EnrichRunsInit /\ [][EnrichRunsNext]_vars

-----------------------------------------------------------------------------
(* _calc_calories called for a duration and for twice that duration, as    *)
(* tests/test_fit_generator.py does                                         *)

MaxSamples == 3
CalHeartRates == {40, 88, 90, 100, 150, 200}
CalYears == {1990, 2024, 2026, 2060}
CalDurations == {0, 1, 5, 6, 7, 30, 1800, 3600}

CalInit ==
    /\ call_in \in [hr_samples : {[i \in 1..n |-> v] :
                                    n \in 0..MaxSamples, v \in CalHeartRates},
                     duration_s : CalDurations,
                     workout_year : CalYears]
    /\ call_pc = "call"
    /\ call_out = <<>>
    /\ IdleExceptCall

CalcOnce ==
    /\ call_pc = "call"
    /\ call_out' = <<CalcCalories(call_in.hr_samples, call_in.duration_s,
                                  call_in.workout_year)>>
    /\ call_pc' = "first"
    /\ UNCHANGED <<call_in, except_call>>

CalcTwice ==
    /\ call_pc = "first"
    /\ call_out' = Append(call_out,
                          CalcCalories(call_in.hr_samples, 2 * call_in.duration_s,
                                       call_in.workout_year))
    /\ call_pc' = "done"
    /\ UNCHANGED <<call_in, except_call>>

CalNext == CalcOnce \/ CalcTwice

CalSpec == CalInit /\ [][CalNext]_vars

-----------------------------------------------------------------------------
(* Direct calls of lookup_exercise: a run of lookups against the module's
   table.  call_in is the list of names looked up, call_out the table as the
   module holds it and the tuples returned so far. *)

MaxLookups == 3

\* names of the table, and strings that are not keys of it: the names of
\* tests/test_exercise_mapper.py, the empty string, and keys altered in case
\* or by a trailing blank (dict lookup compares strings exactly)
LookupNames ==
    DOMAIN HEVY_TO_GARMIN
      \cup {"Underwater Basket Weaving", "Flamingo Stance (Single Leg)", "",
            "bench press (barbell)", "Running "}

LookupInit ==
    /\ call_in \in SeqsUpTo(LookupNames, MaxLookups) \ {<<>>}
    /\ call_pc = "call"
    /\ call_out = [table |-> HEVY_TO_GARMIN, results |-> <<>>]
    /\ IdleExceptCall

\* one call of lookup_exercise: dict.get reads the table and leaves it as it is
CallLookupExercise ==
    /\ call_pc = "call"
    /\ LET hevy_name == call_in[Len(call_out.results) + 1] IN
           call_out' = [table |-> call_out.table,
                        results |-> Append(call_out.results,
                                           LookupExercise(hevy_name))]
    /\ call_pc' = IF Len(call_out.results) + 1 = Len(call_in)
                  THEN "done" ELSE "call"
    /\ UNCHANGED <<call_in, except_call>>

LookupNext == CallLookupExercise

LookupSpec == LookupInit /\ [][LookupNext]_vars

-----------------------------------------------------------------------------
(* strava_push.py: push_workout_to_strava.  An optional value is <<>> for
   None and <<v>> otherwise. *)

MAX_UPLOAD_POLLS == 5

\* "if activity_id": None and 0 are falsy
IdTruthy(activity_id) == activity_id # <<>> /\ activity_id[1] # 0

\* "if error": None and the empty string are falsy
ErrTruthy(error) == error # <<>> /\ error[1] # ""

\* Mutant: the loop is left only on an activity id
MutPollBreaks(status_result) == IdTruthy(status_result.activity_id)

\* if activity_id or error: break
PollBreaks(status_result) ==
    IdTruthy(status_result.activity_id) \/ ErrTruthy(status_result.error)

TimedOut == <<"Upload polling timed out after 5 attempts">>

\* The replies of client.check_upload_status: still processing, ready, failed,
\* and a reply that carries both an activity id and an error
StatusReplies ==
    [raised : {FALSE}, activity_id : {<<>>, <<999111>>},
     error : {<<>>, <<"duplicate of activity">>}]

\* check_upload_status raised (a failed request)
RaisedReply == [raised |-> TRUE, activity_id |-> <<>>, error |-> <<>>]

\* The replies of client.upload_activity: it raises, or returns the upload with
\* or without an activity id
UploadReplies ==
    {[raised |-> TRUE, activity_id |-> <<>>],
     [raised |-> FALSE, activity_id |-> <<>>],
     [raised |-> FALSE, activity_id |-> <<555>>]}

PushArgs ==
    [hevy_id : {<<>>, <<"abc-123">>},
     hevy_workout : RunWorkouts,
     hr_samples : {[none |-> TRUE, samples |-> <<>>],
                   [none |-> FALSE, samples |-> SAMPLE_HR]},
     description : BOOLEAN,
     upload : UploadReplies]

PushLocals ==
    [activity_id |-> <<>>, error |-> <<>>, polls |-> <<>>, fit_file |-> FALSE,
     updated |-> FALSE, log |-> {}, result |-> <<>>]

PushInit ==
    /\ push_in \in PushArgs
    /\ push_pc = "call"
    /\ push_st = PushLocals
    /\ IdleExceptPush

PushResult(status, activity_id, error) ==
    [status |-> status, strava_activity_id |-> activity_id, error |-> error]

\* The except branch and the finally block: the failure is logged when the
\* log can be written, the temporary file is removed, an error is returned
Failed(st, logged) ==
    [st EXCEPT !.log = IF logged
                       THEN @ \cup {LogRow("hevy", push_in.hevy_id[1], "strava", "error")}
                       ELSE @,
               !.fit_file = FALSE,
               !.result = <<PushResult("error", <<>>, <<"exception">>)>>]

\* workout["hevy_id"] is read before the try block
PushKeyError ==
    /\ push_pc = "call"
    /\ push_in.hevy_id = <<>>
    /\ push_pc' = "raised"
    /\ UNCHANGED <<push_in, push_st, except_push>>

\* Steps 1 to 3: the file is generated and uploaded; polling is entered only
\* when the upload carries no activity id
Upload ==
    /\ push_pc = "call"
    /\ push_in.hevy_id # <<>>
    /\ ~GenerateFitResult(push_in.hevy_workout, push_in.hr_samples).raised
    /\ ~push_in.upload.raised
    /\ push_st' = [push_st EXCEPT !.activity_id = push_in.upload.activity_id,
                                  !.fit_file = TRUE]
    /\ push_pc' = IF IdTruthy(push_in.upload.activity_id) THEN "status" ELSE "poll"
    /\ UNCHANGED <<push_in, except_push>>

\* generate_fit or upload_activity raises
UploadFails ==
    /\ push_pc = "call"
    /\ push_in.hevy_id # <<>>
    /\ \/ GenerateFitResult(push_in.hevy_workout, push_in.hr_samples).raised
       \/ push_in.upload.raised
    /\ \E logged \in BOOLEAN : push_st' = Failed(push_st, logged)
    /\ push_pc' = "returned"
    /\ UNCHANGED <<push_in, except_push>>

\* One iteration of "for poll in range(_MAX_UPLOAD_POLLS)", with the else
\* clause of the loop when the iteration is the last one
Poll ==
    /\ push_pc = "poll"
    /\ Len(push_st.polls) < MAX_UPLOAD_POLLS
    /\ \E status_result \in StatusReplies :
          LET polls == Append(push_st.polls, status_result)
              exhausted == ~PollBreaks(status_result) /\ Len(polls) = MAX_UPLOAD_POLLS
              timed_out == /\ exhausted
                           /\ ~IdTruthy(status_result.activity_id)
                           /\ ~ErrTruthy(status_result.error)
          IN  /\ push_st' = [push_st EXCEPT
                                !.activity_id = status_result.activity_id,
                                !.error = IF timed_out THEN TimedOut
                                          ELSE status_result.error,
                                !.polls = polls]
              /\ push_pc' = IF PollBreaks(status_result) \/ exhausted
                            THEN "status" ELSE "poll"
    /\ UNCHANGED <<push_in, except_push>>

\* check_upload_status raises
PollRaises ==
    /\ push_pc = "poll"
    /\ Len(push_st.polls) < MAX_UPLOAD_POLLS
    /\ \E logged \in BOOLEAN :
          push_st' = Failed([push_st EXCEPT !.polls = Append(@, RaisedReply)], logged)
    /\ push_pc' = "returned"
    /\ UNCHANGED <<push_in, except_push>>

\* Steps 5 to 8: the status, the description, the log row, the result
PushReturn ==
    /\ push_pc = "status"
    /\ \E update_ok, logged \in BOOLEAN :
          LET status == IF ErrTruthy(push_st.error) THEN "error" ELSE "sent"
              activity_id == IF ErrTruthy(push_st.error) THEN <<>>
                             ELSE push_st.activity_id
              updated == IdTruthy(activity_id) /\ push_in.description /\ update_ok
          IN  push_st' =
                IF logged
                THEN [push_st EXCEPT
                        !.activity_id = activity_id,
                        !.updated = updated,
                        !.log = @ \cup {LogRow("hevy", push_in.hevy_id[1],
                                               "strava", status)},
                        !.fit_file = FALSE,
                        !.result = <<PushResult(status, activity_id, push_st.error)>>]
                ELSE Failed([push_st EXCEPT !.activity_id = activity_id,
                                            !.updated = updated], FALSE)
    /\ push_pc' = "returned"
    /\ UNCHANGED <<push_in, except_push>>

PushNext ==
    PushKeyError \/ Upload \/ UploadFails \/ Poll \/ PollRaises \/ PushReturn

PushSpec == PushInit /\ [][PushNext]_vars

-----------------------------------------------------------------------------
(* garmin_push.py: push_garmin_activity_to_strava.  It shares the variables
   of push_workout_to_strava; polls are the replies of check_upload_status. *)

GARMIN_POLLS == 5

\* The activity, what _get_activity_summary and _download_fit_file do, and the
\* reply of upload_activity
GarminPushArgs ==
    [activity_id : {101, 102},
     summary : {"found", "none", "raises"},
     download : {"ok", "raises"},
     upload : UploadReplies]

\* str(activity_id)
StrOfId(activity_id) == IF activity_id = 101 THEN "101" ELSE "102"

GarminPushInit ==
    /\ push_in \in GarminPushArgs
    /\ push_pc = "call"
    /\ push_st = PushLocals
    /\ IdleExceptPush

\* The except branch and the finally block of push_garmin_activity_to_strava
GarminFailed(st, logged) ==
    [st EXCEPT !.log = IF logged
                       THEN @ \cup {LogRow("garmin", StrOfId(push_in.activity_id), "strava", "error")}
                       ELSE @,
               !.fit_file = FALSE,
               !.result = <<PushResult("error", <<>>, <<"exception">>)>>]

\* if not summary: return an error; nothing is logged
GarminNoSummary ==
    /\ push_pc = "call"
    /\ push_in.summary = "none"
    /\ push_st' = [push_st EXCEPT
                      !.result = <<PushResult("error", <<>>, <<"No summary found">>)>>]
    /\ push_pc' = "returned"
    /\ UNCHANGED <<push_in, except_push>>

GarminUploadRaises ==
    \/ push_in.summary = "raises"
    \/ push_in.download = "raises"
    \/ push_in.upload.raised

\* Steps 1 to 4: summary, download, upload; polling is entered only when the
\* upload carries no activity id
GarminUpload ==
    /\ push_pc = "call"
    /\ push_in.summary = "found"
    /\ ~GarminUploadRaises
    /\ push_st' = [push_st EXCEPT !.activity_id = push_in.upload.activity_id,
                                  !.fit_file = TRUE]
    /\ push_pc' = IF IdTruthy(push_in.upload.activity_id) THEN "status" ELSE "poll"
    /\ UNCHANGED <<push_in, except_push>>

\* The summary query, the download or upload_activity raises
GarminUploadFails ==
    /\ push_pc = "call"
    /\ push_in.summary # "none"
    /\ GarminUploadRaises
    /\ \E logged \in BOOLEAN : push_st' = GarminFailed(push_st, logged)
    /\ push_pc' = "returned"
    /\ UNCHANGED <<push_in, except_push>>

\* One iteration of "for _ in range(5)"; the loop has no else clause
GarminPoll ==
    /\ push_pc = "poll"
    /\ Len(push_st.polls) < GARMIN_POLLS
    /\ \E status_result \in StatusReplies :
          LET polls == Append(push_st.polls, status_result)
          IN  /\ push_st' = [push_st EXCEPT
                                !.activity_id = status_result.activity_id,
                                !.error = status_result.error,
                                !.polls = polls]
              /\ push_pc' = IF \/ IdTruthy(status_result.activity_id)
                               \/ ErrTruthy(status_result.error)
                               \/ Len(polls) = GARMIN_POLLS
                            THEN "status" ELSE "poll"
    /\ UNCHANGED <<push_in, except_push>>

\* check_upload_status raises
GarminPollRaises ==
    /\ push_pc = "poll"
    /\ Len(push_st.polls) < GARMIN_POLLS
    /\ \E logged \in BOOLEAN :
          push_st' = GarminFailed([push_st EXCEPT !.polls = Append(@, RaisedReply)],
                                  logged)
    /\ push_pc' = "returned"
    /\ UNCHANGED <<push_in, except_push>>

\* "if error: status = error ... else: status = sent", step 6 (the log row)
\* and the result; a failure to log enters the except branch
GarminPushReturn ==
    /\ push_pc = "status"
    /\ \E logged \in BOOLEAN :
          LET status == IF ErrTruthy(push_st.error) THEN "error" ELSE "sent"
              activity_id == IF ErrTruthy(push_st.error) THEN <<>>
                             ELSE push_st.activity_id
          IN  push_st' =
                IF logged
                THEN [push_st EXCEPT
                        !.activity_id = activity_id,
                        !.log = @ \cup {LogRow("garmin", StrOfId(push_in.activity_id),
                                               "strava", status)},
                        !.fit_file = FALSE,
                        !.result = <<PushResult(status, activity_id, push_st.error)>>]
                ELSE GarminFailed([push_st EXCEPT !.activity_id = activity_id], FALSE)
    /\ push_pc' = "returned"
    /\ UNCHANGED <<push_in, except_push>>

GarminPushNext ==
    \/ GarminNoSummary
    \/ GarminUpload
    \/ GarminUploadFails
    \/ GarminPoll
    \/ GarminPollRaises
    \/ GarminPushReturn

GarminPushSpec == GarminPushInit /\ [][GarminPushNext]_vars

-----------------------------------------------------------------------------
(* reconciler.py: reconcile_strava_syncs.  rec_st.log is the activity_sync_log
   table as the sequence of its rows, oldest first (log_activity_sync is a
   plain INSERT: a row is never replaced). *)

MATCH_WINDOW_SECONDS == 120
DAY_SECONDS == 86400

AbsDiff(a, b) == IF a >= b THEN a - b ELSE b - a

\* insertion of one activity behind those that start no later
RECURSIVE InsertByStart(_, _)
InsertByStart(sorted, a) ==
    IF sorted = <<>> THEN <<a>>
    ELSE IF Head(sorted).start_epoch <= a.start_epoch
         THEN <<Head(sorted)>> \o InsertByStart(Tail(sorted), a)
         ELSE <<a>> \o sorted

\* sorted(garmin + hevy, key=lambda a: a["start_epoch"]): a stable sort
RECURSIVE SortByStart(_)
SortByStart(activities) ==
    IF activities = <<>> THEN <<>>
    ELSE InsertByStart(SortByStart(SubSeq(activities, 1, Len(activities) - 1)),
                       activities[Len(activities)])

\* _load_existing_sync_entries: the (platform, id, destination) of the rows
\* towards Strava with status 'sent' or 'external'
LoadExistingSyncEntries(log) ==
    {<<log[k].source_platform, log[k].source_id, log[k].destination>> :
        k \in {j \in 1..Len(log) : /\ log[j].destination = "strava"
                                   /\ log[j].status \in {"sent", "external"}}}

SyncKey(src) == <<src.platform, src.source_id, "strava">>

\* Pass 1, the inner loop: the source nearest in time within the window, the
\* earliest of the sorted list among equally near ones; <<>> when there is none
BestByTime(sa, all_sources) ==
    LET near == {i \in 1..Len(all_sources) :
                    AbsDiff(all_sources[i].start_epoch, sa.start_epoch)
                        <= MATCH_WINDOW_SECONDS}
        Diff(i) == AbsDiff(all_sources[i].start_epoch, sa.start_epoch)
        best == {i \in near : \A j \in near :
                    Diff(i) < Diff(j) \/ (Diff(i) = Diff(j) /\ i <= j)}
    IN  IF near = {} THEN <<>> ELSE <<all_sources[CHOOSE i \in best : TRUE]>>

\* Mutant: a Strava activity without a name is matched by name too
MutNameCandidates(sa, all_sources) ==
    {i \in 1..Len(all_sources) :
        /\ all_sources[i].name = sa.name
        /\ AbsDiff(all_sources[i].start_epoch, sa.start_epoch) <= DAY_SECONDS}

\* Pass 2: the sources a named Strava activity can be matched with by name
NameCandidates(sa, all_sources) ==
    IF sa.name = "" THEN {}
    ELSE {i \in 1..Len(all_sources) :
            /\ all_sources[i].name = sa.name
            /\ AbsDiff(all_sources[i].start_epoch, sa.start_epoch) <= DAY_SECONDS}

\* Pass 2, the inner loop: the first source of the sorted list with the name
\* of the Strava activity and a start within a day of it
BestByName(sa, all_sources) ==
    LET named == NameCandidates(sa, all_sources)
    IN  IF named = {} THEN <<>>
        ELSE <<all_sources[CHOOSE i \in named : \A j \in named : i <= j]>>

ExternalRow(src, sa) ==
    [source_platform |-> src.platform, source_id |-> src.source_id,
     destination |-> "strava", status |-> "external",
     destination_id |-> sa.strava_id]

\* The body of either loop once best_match is known.  acc holds existing,
\* matched_strava_ids, the rows inserted and whether an insert has raised;
\* the insert raises when fail_at rows have been inserted before it.
MatchStep(acc, sa, best_match, fail_at) ==
    IF acc.raised \/ best_match = <<>> THEN acc
    ELSE IF SyncKey(best_match[1]) \in acc.existing
         THEN [acc EXCEPT !.matched = @ \cup {sa.strava_id}]
    ELSE IF fail_at = <<Len(acc.inserted)>>
         THEN [acc EXCEPT !.raised = TRUE]
    ELSE [acc EXCEPT !.existing = @ \cup {SyncKey(best_match[1])},
                     !.matched = @ \cup {sa.strava_id},
                     !.inserted = Append(@, ExternalRow(best_match[1], sa))]

\* Pass 1 over strava[k..]
RECURSIVE PassOne(_, _, _, _, _)
PassOne(acc, strava, all_sources, fail_at, k) ==
    IF k > Len(strava) THEN acc
    ELSE PassOne(MatchStep(acc, strava[k], BestByTime(strava[k], all_sources), fail_at),
                 strava, all_sources, fail_at, k + 1)

\* Pass 2 over strava[k..]: the activities matched so far are passed over
RECURSIVE PassTwo(_, _, _, _, _)
PassTwo(acc, strava, all_sources, fail_at, k) ==
    IF k > Len(strava) THEN acc
    ELSE PassTwo(IF strava[k].strava_id \in acc.matched THEN acc
                 ELSE MatchStep(acc, strava[k], BestByName(strava[k], all_sources),
                                fail_at),
                 strava, all_sources, fail_at, k + 1)

\* reconcile_strava_syncs on the tables as they are: the rows it inserts and
\* whether it raised; the count it returns is the number of rows
ReconcileStravaSyncs(strava, garmin, hevy, log, fail_at) ==
    LET acc0 == [existing |-> LoadExistingSyncEntries(log), matched |-> {},
                 inserted |-> <<>>, raised |-> FALSE]
        all_sources == SortByStart(garmin \o hevy)
    IN  IF strava = <<>> THEN acc0
        ELSE PassTwo(PassOne(acc0, strava, all_sources, fail_at, 1),
                     strava, all_sources, fail_at, 1)

MaxStrava == 2
MaxSources == 2
MaxReconRuns == 2

StravaStarts == {90000, 90100}
\* 120 s and 121 s after a Strava start, and a day or more before one
SourceStarts == {90220, 90221, 3600}

\* The activities a table holds, the k-th with the id idOf[k]
StravaTable ==
    UNION {{[k \in 1..n |-> [strava_id |-> <<"s1", "s2", "s3">>[k],
                             start_epoch |-> t[k], name |-> nm[k]]] :
              t \in [1..n -> StravaStarts], nm \in [1..n -> {"", "Pull Day"}]} :
           n \in 0..MaxStrava}

SourceTable(platform, ids, n) ==
    {[k \in 1..n |-> [source_id |-> ids[k], platform |-> platform,
                      start_epoch |-> t[k], name |-> nm[k]]] :
        t \in [1..n -> SourceStarts], nm \in [1..n -> {"", "Pull Day"}]}

\* the rows of the log before the first run: none, or an earlier push of the
\* first source with its outcome
EarlierLogs(garmin, hevy) ==
    {<<>>}
    \cup {<<[source_platform |-> src.platform, source_id |-> src.source_id,
             destination |-> "strava", status |-> st, destination_id |-> "s9"]>> :
            src \in {(garmin \o hevy)[k] : k \in 1..(IF garmin \o hevy = <<>> THEN 0 ELSE 1)},
            st \in {"sent", "error"}}

ReconInit ==
    /\ \E g \in 0..MaxSources :
         \E garmin \in SourceTable("garmin", <<"101", "102", "103">>, g) :
         \E hevy \in SourceTable("hevy", <<"abc-1", "abc-2", "abc-3">>, MaxSources - g) :
         \E strava \in StravaTable :
         \E log \in EarlierLogs(garmin, hevy) :
            /\ rec_in = [strava |-> strava, garmin |-> garmin, hevy |-> hevy,
                         log |-> log]
            /\ rec_st = [log |-> log, runs |-> <<>>]
    /\ rec_pc = "call"
    /\ IdleExceptRecon

\* one run of reconcile_strava_syncs to its return
Reconcile ==
    /\ rec_pc = "call"
    /\ LET run == ReconcileStravaSyncs(rec_in.strava, rec_in.garmin, rec_in.hevy,
                                       rec_st.log, <<>>)
       IN  rec_st' = [log |-> rec_st.log \o run.inserted,
                      runs |-> Append(rec_st.runs,
                                      [raised |-> FALSE, before |-> Len(rec_st.log),
                                       returned |-> <<Len(run.inserted)>>])]
    /\ rec_pc' = "returned"
    /\ UNCHANGED <<rec_in, except_recon>>

\* one run in which an insert into the log raises: the rows inserted before
\* it stay, nothing is returned
ReconcileRaises ==
    /\ rec_pc = "call"
    /\ \E n \in 0..(MaxStrava - 1) :
          LET run == ReconcileStravaSyncs(rec_in.strava, rec_in.garmin, rec_in.hevy,
                                         rec_st.log, <<n>>)
          IN  /\ run.raised
              /\ rec_st' = [log |-> rec_st.log \o run.inserted,
                            runs |-> Append(rec_st.runs,
                                            [raised |-> TRUE, before |-> Len(rec_st.log),
                                             returned |-> <<>>])]
    /\ rec_pc' = "returned"
    /\ UNCHANGED <<rec_in, except_recon>>

\* the reconciler is run again on the same tables
ReconcileAgain ==
    /\ rec_pc = "returned"
    /\ Len(rec_st.runs) < MaxReconRuns
    /\ rec_pc' = "call"
    /\ UNCHANGED <<rec_in, rec_st, except_recon>>

ReconNext == Reconcile \/ ReconcileRaises \/ ReconcileAgain

ReconSpec == ReconInit /\ [][ReconNext]_vars

-----------------------------------------------------------------------------
(* backfill.py: _safe_db_op.  A message is the sequence of its characters, so
   that str(e).lower() and "word in err_str" are computed as the code
   computes them. *)

MaxRetries == 3

\* the upper-case letters of the messages below
LowerChar(c) ==
    CASE c = "A" -> "a"
      [] c = "C" -> "c"
      [] c = "E" -> "e"
      [] c = "F" -> "f"
      [] c = "L" -> "l"
      [] c = "O" -> "o"
      [] c = "S" -> "s"
      [] c = "Y" -> "y"
      [] OTHER -> c

Lower(str) == [k \in 1..Len(str) |-> LowerChar(str[k])]

\* word in err_str
Contains(err_str, word) ==
    \E k \in 1..(Len(err_str) - Len(word) + 1) :
        SubSeq(err_str, k, k + Len(word) - 1) = word

\* "connection", "timeout", "broken pipe", "reset by peer", "ssl", "eof",
\* "closed", "terminated"
ConnectionWords ==
    {<<"c", "o", "n", "n", "e", "c", "t", "i", "o", "n">>,
     <<"t", "i", "m", "e", "o", "u", "t">>,
     <<"b", "r", "o", "k", "e", "n", " ", "p", "i", "p", "e">>,
     <<"r", "e", "s", "e", "t", " ", "b", "y", " ", "p", "e", "e", "r">>,
     <<"s", "s", "l">>,
     <<"e", "o", "f">>,
     <<"c", "l", "o", "s", "e", "d">>,
     <<"t", "e", "r", "m", "i", "n", "a", "t", "e", "d">>}

\* Mutant: the message is searched as it is, not in lower case
MutIsConnectionError(e) ==
    \E word \in ConnectionWords : Contains(e, word)

\* is_connection_error = any(word in str(e).lower() for word in [...])
IsConnectionError(e) ==
    \E word \in ConnectionWords : Contains(Lower(e), word)

\* "connection reset by peer"
ERR_RESET ==
    <<"c", "o", "n", "n", "e", "c", "t", "i", "o", "n", " ", "r", "e", "s",
      "e", "t", " ", "b", "y", " ", "p", "e", "e", "r">>

\* "bad data"
ERR_BAD_DATA ==
    <<"b", "a", "d", " ", "d", "a", "t", "a">>

\* "SSL SYSCALL error: EOF detected"
ERR_SSL ==
    <<"S", "S", "L", " ", "S", "Y", "S", "C", "A", "L", "L", " ", "e", "r",
      "r", "o", "r", ":", " ", "E", "O", "F", " ", "d", "e", "t", "e", "c",
      "t", "e", "d">>

\* "duplicate key value"
ERR_DUPLICATE ==
    <<"d", "u", "p", "l", "i", "c", "a", "t", "e", " ", "k", "e", "y", " ",
      "v", "a", "l", "u", "e">>

\* The errors an attempt can end in, each with what it is: a lost connection
\* (connection_type) or a fault of the operation or of its data
DbErrors ==
    {[msg |-> ERR_RESET, connection_type |-> TRUE],
     [msg |-> ERR_SSL, connection_type |-> TRUE],
     [msg |-> ERR_BAD_DATA, connection_type |-> FALSE],
     [msg |-> ERR_DUPLICATE, connection_type |-> FALSE]}

\* One attempt: psycopg2.connect raises, the operation raises, the commit on
\* leaving the with block raises, or the operation returns and is committed
AttemptOutcomes ==
    {[kind |-> "ok", called |-> TRUE, error |-> <<>>]}
    \cup {[kind |-> k, called |-> (k # "connect_raises"), error |-> <<e>>] :
            k \in {"connect_raises", "operation_raises", "commit_raises"},
            e \in DbErrors}

SafeDbInit ==
    /\ call_in \in [max_retries : 0..MaxRetries]
    /\ call_pc = "call"
    /\ call_out = [attempts |-> <<>>, result |-> <<>>, raised |-> <<>>]
    /\ IdleExceptCall

\* one iteration of "for attempt in range(max_retries)"; attempt counts from 0
Attempt ==
    /\ call_pc = "call"
    /\ Len(call_out.attempts) < call_in.max_retries
    /\ \E outcome \in AttemptOutcomes :
          LET attempt == Len(call_out.attempts)
              attempts == Append(call_out.attempts,
                                 [conn |-> attempt + 1, outcome |-> outcome])
              retry == /\ outcome.kind # "ok"
                       /\ IsConnectionError(outcome.error[1].msg)
                       /\ attempt < call_in.max_retries - 1
          IN  /\ call_out' =
                    [attempts |-> attempts,
                     result |-> IF outcome.kind = "ok" THEN <<"result">> ELSE <<>>,
                     raised |-> IF outcome.kind # "ok" /\ ~retry
                                THEN outcome.error ELSE <<>>]
              /\ call_pc' = IF outcome.kind = "ok" THEN "done"
                            ELSE IF retry THEN "call" ELSE "raised"
    /\ UNCHANGED <<call_in, except_call>>

\* the loop ends without an attempt left to make: the function returns None
NoAttemptLeft ==
    /\ call_pc = "call"
    /\ Len(call_out.attempts) >= call_in.max_retries
    /\ call_pc' = "done"
    /\ UNCHANGED <<call_in, call_out, except_call>>

SafeDbNext == Attempt \/ NoAttemptLeft

SafeDbSpec == SafeDbInit /\ [][SafeDbNext]_vars

-----------------------------------------------------------------------------
(* backfill.py: GarminBackfill.  Dates are day numbers: day 1 is 1 January of
   the start year, day BackfillDays the today of the first run.  The rows of
   bf_db.attempted are the (day, endpoint) fetches made so far by any run;
   bf_db.raw_data are the rows stored. *)

BackfillDays == 3
MaxRuns == 2

\* An excerpt of garmin_sync.DAILY_ENDPOINTS and RANGE_ENDPOINTS, in order
DAILY_ENDPOINTS == <<"user_summary", "heart_rates">>
RANGE_ENDPOINTS == <<"body_battery">>

\* The endpoints _sync_day_safe goes through, and with the activity list of
\* _discover_and_sync_activities all the endpoints of a date
DayEndpoints == DAILY_ENDPOINTS \o RANGE_ENDPOINTS
AllEndpoints ==
    {DayEndpoints[k] : k \in 1..Len(DayEndpoints)} \cup {"activities_list"}

\* _generate_date_range(oldest_done): newest to oldest, from the day before
\* oldest_done (or from today) down to day 1
GenerateDateRange(oldest_done, today) ==
    LET end == IF oldest_done # <<>> THEN oldest_done[1] - 1 ELSE today
    IN  IF end < 1 THEN <<>> ELSE [k \in 1..end |-> end + 1 - k]

\* update_backfill_progress(conn, "garmin_daily", **fields): an upsert that
\* sets the fields given and keeps the others of an existing row
NoProgressRow ==
    [oldest_date_done |-> <<>>, total_items |-> 0, items_completed |-> 0,
     status |-> "pending"]

ProgressRow(db) == IF db.progress = <<>> THEN NoProgressRow ELSE db.progress[1]

BackfillObject(run) ==
    [run |-> run, shutdown |-> FALSE, dates |-> <<>>, i |-> 1, ep |-> 1,
     count |-> 0, items_done |-> 0, prior_items |-> 0]

GarminInit ==
    /\ bf_db = [progress |-> <<>>, attempted |-> {}, raw_data |-> {}]
    /\ bf_pc = "start"
    /\ bf_st = BackfillObject(1)
    /\ IdleExceptBackfill

BackfillRunning == bf_pc \in {"start", "loop", "day", "activities", "saving", "finish"}

\* _handle_shutdown: SIGINT or SIGTERM arrives
HandleShutdown ==
    /\ BackfillRunning
    /\ ~bf_st.shutdown
    /\ bf_st' = [bf_st EXCEPT !.shutdown = TRUE]
    /\ UNCHANGED <<bf_db, bf_pc, except_backfill>>

\* run, up to the loop: the progress row is read and the dates are listed
RunStart ==
    /\ bf_pc = "start"
    /\ LET progress == bf_db.progress
           oldest_done == IF progress # <<>> THEN progress[1].oldest_date_done ELSE <<>>
           dates == GenerateDateRange(oldest_done, BackfillDays)
       IN  /\ bf_st' = [bf_st EXCEPT
                          !.dates = dates, !.i = 1,
                          !.items_done = IF progress # <<>>
                                         THEN progress[1].items_completed ELSE 0,
                          !.prior_items = IF progress # <<>>
                                          THEN progress[1].items_completed ELSE 0]
           /\ bf_pc' = IF dates = <<>> THEN "returned" ELSE "loop"
    /\ UNCHANGED <<bf_db, except_backfill>>

\* the progress row cannot be read: _safe_db_op raises out of run
RunStartFails ==
    /\ bf_pc = "start"
    /\ bf_pc' = "raised"
    /\ UNCHANGED <<bf_db, bf_st, except_backfill>>

\* "for i, sync_date in enumerate(dates)": break on shutdown, else the next date
LoopHead ==
    /\ bf_pc = "loop"
    /\ bf_pc' = IF bf_st.i > Len(bf_st.dates) THEN "finish"
                ELSE IF bf_st.shutdown THEN "returned"
                ELSE "day"
    /\ bf_st' = [bf_st EXCEPT !.ep = 1, !.count = 0]
    /\ UNCHANGED <<bf_db, except_backfill>>

\* _sync_day_safe: one endpoint is fetched and, when it returns data, stored;
\* a failure of the fetch or of the upsert is swallowed
SyncEndpoint ==
    /\ bf_pc = "day"
    /\ ~bf_st.shutdown
    /\ bf_st.ep <= Len(DayEndpoints)
    /\ \E outcome \in {"data", "empty", "raises"} :
          LET row == <<bf_st.dates[bf_st.i], DayEndpoints[bf_st.ep]>> IN
          /\ bf_db' = [bf_db EXCEPT
                         !.attempted = @ \cup {row},
                         !.raw_data = IF outcome = "data" THEN @ \cup {row} ELSE @]
          /\ bf_st' = [bf_st EXCEPT
                         !.ep = @ + 1,
                         !.count = IF outcome = "data" THEN @ + 1 ELSE @]
    /\ UNCHANGED <<bf_pc, except_backfill>>

\* _sync_day_safe returns: "if self._shutdown: return count", or the end of
\* the endpoints
SyncDayReturn ==
    /\ bf_pc = "day"
    /\ bf_st.shutdown \/ bf_st.ep > Len(DayEndpoints)
    /\ bf_pc' = "activities"
    /\ UNCHANGED <<bf_db, bf_st, except_backfill>>

\* _discover_and_sync_activities: the activity list of the date is fetched,
\* whatever the shutdown flag, and stored when it is not empty
DiscoverActivities ==
    /\ bf_pc = "activities"
    /\ \E outcome \in {"data", "empty", "raises"} :
          LET row == <<bf_st.dates[bf_st.i], "activities_list">> IN
          bf_db' = [bf_db EXCEPT
                      !.attempted = @ \cup {row},
                      !.raw_data = IF outcome = "data" THEN @ \cup {row} ELSE @]
    /\ bf_pc' = "saving"
    /\ UNCHANGED <<bf_st, except_backfill>>

\* "Update progress after EVERY day": the date becomes oldest_date_done,
\* unless the update fails, which is only printed
SaveProgress ==
    /\ bf_pc = "saving"
    /\ \E saved \in BOOLEAN :
          bf_db' = IF saved
                   THEN [bf_db EXCEPT !.progress =
                           <<[ProgressRow(bf_db) EXCEPT
                                !.oldest_date_done = <<bf_st.dates[bf_st.i]>>,
                                !.total_items = Len(bf_st.dates) + bf_st.prior_items,
                                !.items_completed = bf_st.items_done + 1,
                                !.status = "running"]>>]
                   ELSE bf_db
    /\ bf_st' = [bf_st EXCEPT !.items_done = @ + 1, !.i = @ + 1]
    /\ bf_pc' = "loop"
    /\ UNCHANGED except_backfill

\* after the loop: "Mark complete if we finished all dates"
MarkComplete ==
    /\ bf_pc = "finish"
    /\ \E saved \in BOOLEAN :
          bf_db' = IF ~bf_st.shutdown /\ saved
                   THEN [bf_db EXCEPT !.progress =
                           <<[ProgressRow(bf_db) EXCEPT
                                !.items_completed = bf_st.items_done,
                                !.status = "complete"]>>]
                   ELSE bf_db
    /\ bf_pc' = "returned"
    /\ UNCHANGED <<bf_st, except_backfill>>

\* the backfill is started again: a new process, a new GarminBackfill
GarminRerun ==
    /\ bf_pc \in {"returned", "raised"}
    /\ bf_st.run < MaxRuns
    /\ bf_st' = BackfillObject(bf_st.run + 1)
    /\ bf_pc' = "start"
    /\ UNCHANGED <<bf_db, except_backfill>>

GarminNext ==
    \/ HandleShutdown \/ RunStart \/ RunStartFails \/ LoopHead \/ SyncEndpoint
    \/ SyncDayReturn \/ DiscoverActivities \/ SaveProgress \/ MarkComplete
    \/ GarminRerun

GarminSpec == GarminInit /\ [][GarminNext]_vars

-----------------------------------------------------------------------------
(* backfill.py: HevyBackfill, and hevy_sync.py: sync_all_workouts.  Hevy holds
   HevyPages pages of PageSize workouts; workout k of page p is <<p, k>>.
   bf_db.progress is the row of backfill_progress for 'hevy_workouts',
   bf_db.raw_data are the workouts stored. *)

HevyPages == 2
PageSize == 2

NoHevyRow == [last_page |-> <<>>, items_completed |-> 0, status |-> "pending"]

HevyRow(db) == IF db.progress = <<>> THEN NoHevyRow ELSE db.progress[1]

HevyObject(run) ==
    [run |-> run, shutdown |-> FALSE, start_page |-> 1, page |-> 1, k |-> 1,
     saved |-> 0]

HevyInit ==
    /\ bf_db = [progress |-> <<>>, raw_data |-> {}]
    /\ bf_pc = "init"
    /\ bf_st = HevyObject(1)
    /\ IdleExceptBackfill

\* HevyBackfill.__init__: "if progress and progress['last_page']" resumes at
\* last_page + 1
HevyConstruct ==
    /\ bf_pc = "init"
    /\ LET last_page == HevyRow(bf_db).last_page
           start_page == IF bf_db.progress # <<>> /\ last_page # <<>> /\ last_page[1] # 0
                         THEN last_page[1] + 1 ELSE 1
       IN  bf_st' = [bf_st EXCEPT !.start_page = start_page, !.page = start_page]
    /\ bf_pc' = "fetch"
    /\ UNCHANGED <<bf_db, except_backfill>>

\* the progress row cannot be read: _safe_db_op raises out of __init__
HevyConstructFails ==
    /\ bf_pc = "init"
    /\ bf_pc' = "raised"
    /\ UNCHANGED <<bf_db, bf_st, except_backfill>>

\* HevyBackfill._handle_shutdown: the flag is set; sync_all_workouts does not
\* read it
HevyHandleShutdown ==
    /\ bf_pc \in {"fetch", "save", "progress", "finish"}
    /\ ~bf_st.shutdown
    /\ bf_st' = [bf_st EXCEPT !.shutdown = TRUE]
    /\ UNCHANGED <<bf_db, bf_pc, except_backfill>>

\* client.get_workouts(page): it raises (break), returns no workouts (break),
\* or returns the workouts of the page
FetchPage ==
    /\ bf_pc = "fetch"
    /\ \E outcome \in {"raises", "workouts"} :
          bf_pc' = IF outcome = "raises" \/ bf_st.page > HevyPages
                   THEN "finish" ELSE "save"
    /\ bf_st' = [bf_st EXCEPT !.k = 1]
    /\ UNCHANGED <<bf_db, except_backfill>>

\* "for workout in workouts": the workout is upserted and committed, or the
\* failure is printed
SaveWorkout ==
    /\ bf_pc = "save"
    /\ bf_st.k <= PageSize
    /\ \E stored \in BOOLEAN :
          /\ bf_db' = IF stored
                      THEN [bf_db EXCEPT !.raw_data = @ \cup {<<bf_st.page, bf_st.k>>}]
                      ELSE bf_db
          /\ bf_st' = [bf_st EXCEPT !.k = @ + 1,
                                    !.saved = IF stored THEN @ + 1 ELSE @]
    /\ UNCHANGED <<bf_pc, except_backfill>>

\* The row update_backfill_progress writes for the current page
HevyProgress(status) ==
    <<[last_page |-> <<bf_st.page>>,
       items_completed |-> bf_st.saved + (bf_st.start_page - 1) * PageSize,
       status |-> status]>>

\* "Update progress after each page", then "if page >= page_count" the row is
\* marked complete and the loop is left, else the next page; a failure of
\* either update is swallowed
UpdateProgress ==
    /\ bf_pc = "save"
    /\ bf_st.k > PageSize
    /\ \E running_ok, complete_ok \in BOOLEAN :
          LET last == bf_st.page >= HevyPages
          IN  /\ bf_db' = [bf_db EXCEPT !.progress =
                              IF last /\ complete_ok THEN HevyProgress("complete")
                              ELSE IF running_ok THEN HevyProgress("running")
                              ELSE @]
              /\ bf_pc' = IF last THEN "finish" ELSE "fetch"
              /\ bf_st' = IF last THEN bf_st ELSE [bf_st EXCEPT !.page = @ + 1]
    /\ UNCHANGED except_backfill

\* HevyBackfill.run after sync_all_workouts: it returns on shutdown, else the
\* templates and routines are synced and the row is marked complete
HevyRunFinish ==
    /\ bf_pc = "finish"
    /\ \E marked \in BOOLEAN :
          bf_db' = IF ~bf_st.shutdown /\ marked
                   THEN [bf_db EXCEPT !.progress =
                           <<[HevyRow(bf_db) EXCEPT !.status = "complete"]>>]
                   ELSE bf_db
    /\ bf_pc' = "returned"
    /\ UNCHANGED <<bf_st, except_backfill>>

\* the backfill is started again: a new process, a new HevyBackfill
HevyRerun ==
    /\ bf_pc \in {"returned", "raised"}
    /\ bf_st.run < MaxRuns
    /\ bf_st' = HevyObject(bf_st.run + 1)
    /\ bf_pc' = "init"
    /\ UNCHANGED <<bf_db, except_backfill>>

HevyNext ==
    \/ HevyConstruct \/ HevyConstructFails \/ HevyHandleShutdown \/ FetchPage
    \/ SaveWorkout \/ UpdateProgress \/ HevyRunFinish \/ HevyRerun

HevySpec == HevyInit /\ [][HevyNext]_vars

-----------------------------------------------------------------------------
(* Inputs of execute_routes *)

Dest(platform, enabled) == [platform |-> platform, enabled |-> enabled]

Rule(id, source_platform, activity_type, destinations) ==
    [id |-> id, source_platform |-> source_platform,
     activity_type |-> activity_type, destinations |-> destinations]

\* A rule table with several rules per source, rules naming their own source
\* as destination, a disabled destination and a rule without destinations
FullRules ==
    <<Rule(1, "hevy", "strength", <<Dest("strava", TRUE), Dest("telegram", TRUE)>>),
      Rule(2, "hevy", "*",
           <<Dest("strava", TRUE), Dest("hevy", TRUE), Dest("garmin", TRUE)>>),
      Rule(3, "garmin", "*", <<Dest("strava", TRUE)>>),
      Rule(4, "garmin", "running",
           <<Dest("strava", TRUE), Dest("garmin", TRUE), Dest("telegram", FALSE)>>),
      Rule(5, "strava", "*", <<Dest("strava", TRUE), Dest("telegram", TRUE)>>),
      Rule(6, "hevy", "running", <<>>)>>

RuleTables == {FullRules, <<FullRules[3], FullRules[6]>>}

Activity(platform, hevy_id, activity_id, source_id) ==
    [platform |-> platform, hevy_id |-> hevy_id, activity_id |-> activity_id,
     source_id |-> source_id]

\* A Hevy workout, a Garmin activity (as _route_garmin_activities builds it),
\* a Strava activity, and activities without an id or with a non-numeric one
Activities ==
    {Activity("hevy", <<"h1">>, <<>>, <<>>),
     Activity("garmin", <<>>, <<"101">>, <<"101">>),
     Activity("strava", <<>>, <<>>, <<"s1">>),
     Activity("hevy", <<>>, <<>>, <<>>),
     Activity("garmin", <<>>, <<>>, <<"g-x">>)}

\* int(source_id) succeeds
IsNumeric(id) == id \in {"101", "102"}

\* The table before the call: empty, or holding earlier attempts for this
\* activity or for another one
InitialLogs(a) ==
    LET p == a.platform
        id == SourceId(a)
    IN  {{},
         {LogRow(p, id, "strava", "sent")},
         {LogRow(p, id, "strava", "error")},
         {LogRow(p, id, "strava", "external")},
         {LogRow(p, id, "telegram", "sent")},
         {LogRow(p, "zz", "strava", "sent")},
         {LogRow(p, id, "strava", "error"), LogRow(p, id, "telegram", "sent")}}

RouteInputs ==
    [rules : RuleTables, activity_type : {"strength", "running"},
     workout : Activities, conn : BOOLEAN, strava_client : BOOLEAN,
     telegram_configured : BOOLEAN]

-----------------------------------------------------------------------------
(* The execute_routes call as a state machine: one step per destination *)

RouteInit ==
    /\ route_in \in RouteInputs
    /\ route_pc = "call"
    /\ route_st = [matched |-> <<>>, r |-> 1, d |-> 1, results |-> <<>>,
                   trace |-> <<>>, check |-> <<>>]
    /\ sync_log \in InitialLogs(route_in.workout)
    /\ IdleExceptRoute

RouteFrame == UNCHANGED <<route_in, except_route>>

RouteSource == route_in.workout.platform
RouteSourceId == SourceId(route_in.workout)

\* matched = match_rules(...); if not matched: return []
ExecuteRoutesStart ==
    /\ route_pc = "call"
    /\ LET matched == MatchRules(route_in.rules, RouteSource, route_in.activity_type)
           pos == NextPos(matched, 1, 1)
       IN  /\ route_st' = [route_st EXCEPT !.matched = matched,
                                           !.r = pos[1], !.d = pos[2]]
           /\ route_pc' = IF matched = <<>> THEN "returned" ELSE "loop"
    /\ UNCHANGED sync_log
    /\ RouteFrame

\* should_sync called on its own, with or without a source id
CallShouldSync ==
    /\ route_pc = "call"
    /\ \E destination \in {"strava", "telegram", RouteSource},
          source_id \in {<<>>, <<RouteSourceId>>} :
        route_st' = [route_st EXCEPT !.check =
            <<[destination |-> destination, source_id |-> source_id,
               allowed |-> ShouldSync(sync_log, RouteSource, destination,
                                      route_in.conn, source_id)]>>]
    /\ route_pc' = "checked"
    /\ UNCHANGED sync_log
    /\ RouteFrame

AtDestination == route_pc = "loop" /\ route_st.r <= Len(route_st.matched)
CurRule == route_st.matched[route_st.r]
CurDest == CurRule.destinations[route_st.d]

\* The state after the loop body ran for the current destination
Stepped(decision, result) ==
    LET pos == NextPos(route_st.matched, route_st.r, route_st.d + 1)
    IN  [route_st EXCEPT
            !.r = pos[1], !.d = pos[2],
            !.results = @ \o result,
            !.trace = Append(@, [rule_id |-> CurRule.id,
                                 destination |-> CurDest.platform,
                                 decision |-> decision,
                                 log |-> sync_log])]

Result(status) ==
    <<[destination |-> CurDest.platform, rule_id |-> CurRule.id, status |-> status]>>

Allowed ==
    /\ AtDestination
    /\ CurDest.enabled
    /\ ShouldSync(sync_log, RouteSource, CurDest.platform, route_in.conn,
                  <<RouteSourceId>>)

\* if not dest_config.get("enabled", True): continue
DestinationDisabled ==
    /\ AtDestination
    /\ ~CurDest.enabled
    /\ route_st' = Stepped("disabled", <<>>)
    /\ UNCHANGED <<route_pc, sync_log>>
    /\ RouteFrame

\* if not should_sync(...): continue
SkipDestination ==
    /\ AtDestination
    /\ CurDest.enabled
    /\ ~ShouldSync(sync_log, RouteSource, CurDest.platform, route_in.conn,
                   <<RouteSourceId>>)
    /\ route_st' = Stepped("skipped", <<>>)
    /\ UNCHANGED <<route_pc, sync_log>>
    /\ RouteFrame

ToStrava == Allowed /\ CurDest.platform = "strava" /\ route_in.strava_client

\* push_garmin_activity_to_strava: the upload ends 'sent' or 'error' and is
\* logged; an error may also leave no row (no summary, or the logging failed)
PushGarminActivity ==
    /\ ToStrava
    /\ RouteSource = "garmin"
    /\ IsNumeric(RouteSourceId)
    /\ \E status \in {"sent", "error"}, logged \in BOOLEAN :
        /\ (status = "sent" => logged)
        /\ sync_log' = IF logged
                       THEN sync_log \cup {LogRow("garmin", RouteSourceId, "strava", status)}
                       ELSE sync_log
        /\ route_st' = Stepped("pushed", Result(status))
    /\ UNCHANGED route_pc
    /\ RouteFrame

\* push_workout_to_strava: logs under source_platform "hevy" and the hevy_id
PushWorkout ==
    /\ ToStrava
    /\ RouteSource # "garmin"
    /\ route_in.workout.hevy_id # <<>>
    /\ \E status \in {"sent", "error"}, logged \in BOOLEAN :
        /\ (status = "sent" => logged)
        /\ sync_log' = IF logged
                       THEN sync_log \cup {LogRow("hevy", route_in.workout.hevy_id[1],
                                                  "strava", status)}
                       ELSE sync_log
        /\ route_st' = Stepped("pushed", Result(status))
    /\ UNCHANGED route_pc
    /\ RouteFrame

\* int(source_id) raises ValueError, workout["hevy_id"] raises KeyError: the
\* exception leaves execute_routes
PushRaises ==
    /\ ToStrava
    /\ \/ RouteSource = "garmin" /\ ~IsNumeric(RouteSourceId)
       \/ RouteSource # "garmin" /\ route_in.workout.hevy_id = <<>>
    /\ route_pc' = "raised"
    /\ route_st' = Stepped("raised", <<>>)
    /\ UNCHANGED sync_log
    /\ RouteFrame

ToTelegram ==
    /\ Allowed
    /\ ~(CurDest.platform = "strava" /\ route_in.strava_client)
    /\ CurDest.platform = "telegram"

\* if not is_configured(): continue
TelegramNotConfigured ==
    /\ ToTelegram
    /\ ~route_in.telegram_configured
    /\ route_st' = Stepped("unconfigured", <<>>)
    /\ UNCHANGED <<route_pc, sync_log>>
    /\ RouteFrame

\* send_workout_image, then log_activity_sync (a failure to log is swallowed)
SendTelegram ==
    /\ ToTelegram
    /\ route_in.telegram_configured
    /\ \E ok \in BOOLEAN, logged \in BOOLEAN :
        LET status == IF ok THEN "sent" ELSE "error"
        IN  /\ sync_log' = IF logged
                           THEN sync_log \cup {LogRow(RouteSource, RouteSourceId,
                                                      "telegram", status)}
                           ELSE sync_log
            /\ route_st' = Stepped("pushed", Result(status))
    /\ UNCHANGED route_pc
    /\ RouteFrame

\* No connector available for the destination
NoConnector ==
    /\ Allowed
    /\ ~(CurDest.platform = "strava" /\ route_in.strava_client)
    /\ CurDest.platform # "telegram"
    /\ route_st' = Stepped("no_connector", <<>>)
    /\ UNCHANGED <<route_pc, sync_log>>
    /\ RouteFrame

\* return results
ReturnResults ==
    /\ route_pc = "loop"
    /\ route_st.r > Len(route_st.matched)
    /\ route_pc' = "returned"
    /\ UNCHANGED <<route_st, sync_log>>
    /\ RouteFrame

RouteNext ==
    \/ ExecuteRoutesStart
    \/ CallShouldSync
    \/ DestinationDisabled
    \/ SkipDestination
    \/ PushGarminActivity
    \/ PushWorkout
    \/ PushRaises
    \/ TelegramNotConfigured
    \/ SendTelegram
    \/ NoConnector
    \/ ReturnResults

RouteSpec == RouteInit /\ [][RouteNext]_vars

-----------------------------------------------------------------------------
(* The routing step of the pipeline: _route_enriched_workouts and
   _route_garmin_activities call execute_routes once per selected row *)

\* get_sync_rules(conn, source_platform=..., enabled_only=True)
GetSyncRules(table, source_platform) ==
    SelectSeq(table, LAMBDA rule : rule.source_platform = source_platform)

\* _route_garmin_activities' SELECT: activity_id::text NOT IN (SELECT source_id
\* FROM activity_sync_log WHERE source_platform = 'garmin'
\* AND destination = 'strava' AND status IN ('sent', 'external'))
GarminSelected(log, activity_id) ==
    ~\E row \in log :
        /\ row.source_platform = "garmin"
        /\ row.destination = "strava"
        /\ row.status \in {"sent", "external"}
        /\ row.source_id = activity_id

\* _route_enriched_workouts: a row of workout_enrichment, routed as "strength"
\* with the connection of the call
HevyRowInputs ==
    [rules : {GetSyncRules(t, "hevy") : t \in RuleTables},
     activity_type : {"strength"},
     workout : {Activity("hevy", <<"h1">>, <<>>, <<>>)},
     conn : {TRUE}, strava_client : BOOLEAN, telegram_configured : BOOLEAN]

\* _route_garmin_activities: a row of garmin_activity_raw, routed under its
\* typeKey and without a connection
GarminRowInputs ==
    [rules : {GetSyncRules(t, "garmin") : t \in RuleTables},
     activity_type : {"strength", "running"},
     workout : {Activity("garmin", <<>>, <<id>>, <<id>>) : id \in {"101", "102"}},
     conn : {FALSE}, strava_client : BOOLEAN, telegram_configured : BOOLEAN]

\* The state in which the loop over the selected rows calls execute_routes:
\* the rules are not empty, a Garmin row has passed the SELECT
RoutingStepInit ==
    /\ route_in \in HevyRowInputs \cup GarminRowInputs
    /\ route_in.rules # <<>>
    /\ route_pc = "call"
    /\ route_st = [matched |-> <<>>, r |-> 1, d |-> 1, results |-> <<>>,
                   trace |-> <<>>, check |-> <<>>]
    /\ sync_log \in InitialLogs(route_in.workout)
    /\ (route_in.workout.platform = "garmin" =>
            GarminSelected(sync_log, route_in.workout.activity_id[1]))
    /\ IdleExceptRoute

RoutingStepNext ==
    \/ ExecuteRoutesStart
    \/ DestinationDisabled
    \/ SkipDestination
    \/ PushGarminActivity
    \/ PushWorkout
    \/ TelegramNotConfigured
    \/ SendTelegram
    \/ NoConnector
    \/ ReturnResults

RoutingStepSpec == RoutingStepInit /\ [][RoutingStepNext]_vars

-----------------------------------------------------------------------------
(* Properties of generate_fit *)

FitDone == fit_pc = "done"
FitHr == IF fit_in.hr_samples.none THEN <<>> ELSE fit_in.hr_samples.samples
FitExercises == fit_in.hevy_workout.exercises
FitDuration ==
    fit_in.hevy_workout.end_time.epoch_s - fit_in.hevy_workout.start_time.epoch_s
FitSummary == fit_out.summary[1]

\* Position of the only message of that kind in the file
IndexOfMsg(file, msg) == CHOOSE i \in 1..Len(file) : file[i].msg = msg

\* The messages written between the timer-start and the timer-stop event
FileBody(file) ==
    SubSeq(file, IndexOfMsg(file, "event_start") + 1,
           IndexOfMsg(file, "event_stop") - 1)

\* C1: the messages between timer start and timer stop are non-decreasing in
\* timestamp, and among messages with the same timestamp every heart-rate
\* record comes before every set message.
C1_TimelineOrdered ==
    FitDone =>
        LET body == FileBody(fit_out.file)
        IN  \A i, j \in 1..Len(body) :
                i < j =>
                    /\ body[i].timestamp <= body[j].timestamp
                    /\ (body[i].timestamp = body[j].timestamp
                        /\ body[j].msg = "record") => body[i].msg = "record"

\* A heart-rate record and a set message share a timestamp
C1_Witness ==
    /\ FitDone
    /\ LET body == FileBody(fit_out.file)
       IN  \E i, j \in 1..Len(body) :
               /\ i < j
               /\ body[i].timestamp = body[j].timestamp
               /\ body[i].msg = "record"
               /\ body[j].msg = "set"

RatEq(a, b) == a[1] * b[2] = b[1] * a[2]
RatLeq(a, b) == a[1] * b[2] <= b[1] * a[2]

\* C2: scale = clamp(duration / ideal, 0.3, 2.0) when ideal > 0 and 1.0 when
\* ideal = 0; with at least one set it lies in [0.3, 2.0], is 2.0 whenever
\* duration >= 2 * ideal and 0.3 whenever duration <= 0.3 * ideal.
C2_ScaleClamped ==
    FitDone =>
        LET I == fit_out.ideal_total
            d == FitDuration
            sc == fit_out.scale
        IN  /\ sc[2] > 0
            /\ I = 0 => RatEq(sc, <<1, 1>>)
            /\ Len(fit_out.all_sets_info) >= 1 => I > 0
            /\ I > 0 =>
                /\ RatLeq(<<3, 10>>, sc) /\ RatLeq(sc, <<2, 1>>)
                /\ d >= 2 * I => RatEq(sc, <<2, 1>>)
                /\ 10 * d <= 3 * I => RatEq(sc, <<3, 10>>)
                /\ (3 * I < 10 * d /\ d < 2 * I) => RatEq(sc, <<d, I>>)

\* The upper clamp is engaged
C2_Witness ==
    /\ FitDone
    /\ fit_out.ideal_total > 0
    /\ FitDuration > 2 * fit_out.ideal_total
    /\ RatEq(fit_out.scale, <<2, 1>>)

IsSampleCall ==
    /\ fit_in.hevy_workout.exercises = SampleExercises
    /\ ParseOk(fit_in.hevy_workout.start_time)
    /\ ParseOk(fit_in.hevy_workout.end_time)
    /\ FitDuration = 3600
    /\ ~fit_in.hr_samples.none
    /\ fit_in.hr_samples.samples = SAMPLE_HR

\* C6 as claimed: the sample workout (warmup + 2 normal sets, then 1 normal
\* set; one hour; heart rate 110..130) returns exercises = 2, total_sets = 3,
\* hr_samples = 5, avg_hr = 120 and calories > 0.
C6_AsClaimed ==
    (FitDone /\ IsSampleCall) =>
        /\ FitSummary.exercises = 2
        /\ FitSummary.total_sets = 3
        /\ FitSummary.hr_samples = 5
        /\ FitSummary.avg_hr = <<120>>
        /\ FitSummary.calories > 0

\* C6 amended: the warmup set counts, so total_sets = 4
\* (as tests/test_fit_generator.py asserts).
C6_SampleSummary ==
    (FitDone /\ IsSampleCall) =>
        /\ FitSummary.exercises = 2
        /\ FitSummary.total_sets = 4
        /\ FitSummary.hr_samples = 5
        /\ FitSummary.avg_hr = <<120>>
        /\ FitSummary.calories > 0

C6_Witness == FitDone /\ IsSampleCall /\ ~fit_out.raised /\ fit_out.written

MsgsOf(file, msg) == SelectSeq(file, LAMBDA m : m.msg = msg)

\* What C7 says apart from the sign of the calories
C7_NoHrOutput ==
    /\ MsgsOf(fit_out.file, "record") = <<>>
    /\ FitSummary.hr_samples = 0
    /\ FitSummary.avg_hr = <<>>
    /\ \A m \in {"lap", "session"} :
        /\ Len(MsgsOf(fit_out.file, m)) = 1
        /\ MsgsOf(fit_out.file, m)[1].avg_heart_rate = <<>>
        /\ MsgsOf(fit_out.file, m)[1].max_heart_rate = <<>>
        /\ MsgsOf(fit_out.file, m)[1].total_calories = FitSummary.calories

\* C7 as claimed: with hr_samples None or empty and a positive duration, no
\* heart-rate record is written, the summary has hr_samples = 0 and no avg_hr,
\* lap and session carry no heart rate, and the calories are strictly positive.
C7_AsClaimed ==
    (FitDone /\ FitHr = <<>> /\ FitDuration > 0) =>
        /\ C7_NoHrOutput
        /\ FitSummary.calories > 0

\* C7 amended: the calories are round(rate(90 bpm) * minutes): never negative,
\* strictly positive from 6 s on (a 2026 workout), 0 for 1..5 s.
C7_NoHrFallback ==
    (FitDone /\ FitHr = <<>> /\ FitDuration > 0) =>
        /\ C7_NoHrOutput
        /\ FitSummary.calories >= 0
        /\ FitDuration >= 6 => FitSummary.calories > 0
        /\ FitDuration <= 5 => FitSummary.calories = 0
        /\ 2 * KeytelDen * FitSummary.calories - KeytelDen
             <= 2 * KeytelNum(DEFAULT_HR_BPM, 2026 - USER_BIRTH_YEAR) * FitDuration
        /\ 2 * KeytelNum(DEFAULT_HR_BPM, 2026 - USER_BIRTH_YEAR) * FitDuration
             <= 2 * KeytelDen * FitSummary.calories + KeytelDen

\* hr_samples = None, an hour's workout with sets
C7_Witness ==
    /\ FitDone
    /\ fit_in.hr_samples.none
    /\ FitDuration = 3600
    /\ FitSummary.total_sets > 0
    /\ FitSummary.calories > 0
    /\ FitSummary.avg_hr = <<>>

\* The (exercise, set) position, 1-based, of the k-th set in performance order
RECURSIVE SetsBefore(_, _)
SetsBefore(exercises, e) ==
    IF e <= 1 THEN 0
    ELSE Len(exercises[e - 1].sets) + SetsBefore(exercises, e - 1)

TotalSets(exercises) == SetsBefore(exercises, Len(exercises) + 1)

C10_NoRestAfterLastSet ==
    (FitDone /\ Len(fit_out.all_sets_info) >= 1 /\ FitDuration > 0) =>
        LET info == fit_out.all_sets_info
            sets == SelectSeq(fit_out.timeline, LAMBDA e : e.type = "set")
        IN  /\ info[Len(info)].rest_dur = 0
            /\ sets[Len(sets)].set_type = "active"

FitStartMs == Ms(fit_in.hevy_workout.start_time.epoch_s)
FitEndMs == Ms(fit_in.hevy_workout.end_time.epoch_s)

\* C11: with n > 1 samples the heart-rate records are stamped at
\* start + i * duration / (n - 1) (to the millisecond), so the first is at the
\* workout start, the last at the workout end and none is later than the end;
\* a single sample is stamped at the workout start.  (Stated for the workouts
\* whose duration is not negative.)
C11_HrSpacing ==
    (FitDone /\ FitDuration >= 0) =>
        LET recs == MsgsOf(fit_out.file, "record")
            n == Len(FitHr)
        IN  /\ Len(recs) = n
            /\ n = 1 => recs[1].timestamp = FitStartMs
            /\ n > 1 =>
                /\ recs[1].timestamp = FitStartMs
                /\ recs[n].timestamp = FitEndMs
                /\ \A i \in 1..n :
                    LET exact == (i - 1) * FitDuration * 1000
                        got == (n - 1) * (recs[i].timestamp - FitStartMs)
                    IN  /\ recs[i].timestamp <= FitEndMs
                        /\ 2 * (got - exact) <= n - 1
                        /\ 2 * (exact - got) <= n - 1

\* Number of messages of that kind in the file
CountMsg(file, msg) == Len(MsgsOf(file, msg))

\* Number of sets that are followed by a rest
RestCount(info) == Len(SelectSeq(info, LAMBDA si : si.rest_dur > 0))

\* C12: every file holds, in this order, one timer-start event stamped with
\* the workout's start, the merged timeline events in their sorted order, one
\* timer-stop event stamped with the workout's end, then one lap, one session
\* and one activity record of manual type; also with no set or no sample.
C12_FileOrder ==
    FitDone =>
        LET f == fit_out.file
            a == IndexOfMsg(f, "event_start")
            z == IndexOfMsg(f, "event_stop")
            body == FileBody(f)
        IN  /\ \A m \in {"event_start", "event_stop", "lap", "session", "activity"} :
                CountMsg(f, m) = 1
            /\ f[a].timestamp = FitStartMs
            /\ f[z].timestamp = FitEndMs
            /\ a < z
            /\ \A i \in 1..(a - 1) : f[i].msg \in {"file_id", "sport", "exercise_title"}
            /\ Len(body) = Len(fit_out.timeline)
            /\ \A k \in 1..Len(body) :
                /\ body[k].event = fit_out.timeline[k]
                /\ body[k].msg \in {"record", "set"}
                /\ body[k].timestamp = fit_out.timeline[k].ms
            /\ CountMsg(f, "record") = Len(FitHr)
            /\ CountMsg(f, "set")
                 = TotalSets(FitExercises) + RestCount(fit_out.all_sets_info)
            /\ Len(f) = z + 3
            /\ f[z + 1].msg = "lap"
            /\ f[z + 2].msg = "session"
            /\ f[z + 3].msg = "activity"
            /\ f[z + 3].type = "manual"

\* A file for exercises without sets and without samples: nothing between the
\* two timer events
C12_Witness ==
    /\ FitDone
    /\ FitExercises # <<>>
    /\ fit_out.timeline = <<>>
    /\ FitHr = <<>>
    /\ IndexOfMsg(fit_out.file, "event_stop")
         = IndexOfMsg(fit_out.file, "event_start") + 1

FitTitles == MsgsOf(fit_out.file, "exercise_title")

\* Every title record carries the index of an exercise entry and what the
\* lookup returns for that entry's name; the records follow the exercise order
TitlesCarryLookup ==
    /\ \A n \in 1..Len(FitTitles) :
        LET t == FitTitles[n]
            i == t.message_index + 1
        IN  /\ i \in 1..Len(FitExercises)
            /\ <<t.exercise_category, t.exercise_name, t.workout_step_name>>
                 = LookupExercise(FitExercises[i].title)
    /\ \A n, m \in 1..Len(FitTitles) :
        n < m => FitTitles[n].message_index < FitTitles[m].message_index

\* C13 as claimed: one title record per distinct exercise name, in exercise
\* order, each carrying the lookup's (category, subcategory); a name occurring
\* in several exercise entries yields a single title record.
C13_AsClaimed ==
    FitDone =>
        /\ TitlesCarryLookup
        /\ Len(FitTitles)
             = Cardinality({FitExercises[i].title : i \in 1..Len(FitExercises)})

\* C13 amended: one title record per exercise entry, in exercise order, with
\* the entry's index as message index and the lookup's (category, subcategory,
\* name); a name occurring in several entries yields one record per entry.
C13_TitlePerEntry ==
    FitDone =>
        /\ TitlesCarryLookup
        /\ Len(FitTitles) = Len(FitExercises)
        /\ \A i \in 1..Len(FitExercises) : FitTitles[i].message_index = i - 1

\* Two entries of the same exercise, two title records
C13_Witness ==
    /\ FitDone
    /\ Len(FitExercises) = 2
    /\ FitExercises[1].title = FitExercises[2].title
    /\ Len(FitTitles) = 2
    /\ FitTitles[2].exercise_category = 28

\* The timestamp is missing or cannot be parsed
Malformed(raw) == raw.form \in {"missing", "empty", "bad"}

\* C14: a generate_fit call whose start or end timestamp is missing or cannot
\* be parsed fails: it creates or overwrites no file at the output path and
\* returns no summary; no call works with a duration other than end - start.
C14_MalformedTimestamps ==
    \A k \in 1..Len(fit_log) :
        LET c == fit_log[k]
            w == c.args.hevy_workout
        IN  IF Malformed(w.start_time) \/ Malformed(w.end_time)
            THEN /\ c.out.raised
                 /\ ~c.out.written
                 /\ c.out.summary = <<>>
                 /\ c.after = c.before
            ELSE /\ ~c.out.raised
                 /\ c.out.summary[1].duration_s
                      = w.end_time.epoch_s - w.start_time.epoch_s

\* A failing call for a path at which an earlier call had written a file
C14_Witness ==
    \E k \in 1..Len(fit_log) :
        /\ fit_log[k].out.raised
        /\ fit_log[k].before[fit_log[k].args.output_path] # <<>>
        /\ fit_log[k].after = fit_log[k].before
        /\ fit_disk[fit_log[k].args.output_path] # <<>>

SetEvents ==
    LET sets == SelectSeq(fit_out.timeline, LAMBDA e : e.type = "set")
    IN  [k \in 1..Len(sets) |->
            CHOOSE e \in {sets[i] : i \in 1..Len(sets)} : e.message_index = <<k - 1>>]

\* The offsets have no gap and no overlap: numerators over the scale's
\* denominator
OffsetsContiguous ==
    LET info == fit_out.all_sets_info
        sc == fit_out.scale
    IN  /\ RatLeq(<<3, 10>>, sc) /\ RatLeq(sc, <<2, 1>>)
        /\ info # <<>> => info[1].start_offset = 0
        /\ \A k \in 1..Len(info) :
            /\ info[k].start_offset <= info[k].end_offset
            /\ info[k].end_offset - info[k].start_offset = info[k].set_dur * sc[1]
            /\ k < Len(info) =>
                /\ info[k + 1].start_offset
                     = info[k].end_offset + info[k].rest_dur * sc[1]
                /\ info[k].end_offset <= info[k + 1].start_offset

\* The set events have no gap and no overlap: each starts where the one
\* before it ends
EventsContiguous ==
    /\ SetEvents # <<>> => SetEvents[1].start_time = <<FitStartMs>>
    /\ \A k \in 1..Len(SetEvents) :
        /\ SetEvents[k].start_time[1] <= SetEvents[k].ms
        /\ k > 1 => SetEvents[k].start_time[1] = SetEvents[k - 1].ms

\* C18: the set timeline has no gaps and no overlaps, for every workout and
\* every scale in [0.3, 2.0]: the first active interval starts at the workout
\* start, no interval ends before it starts, and every active interval starts
\* exactly where the rest (or, without rest, the active interval) before it
\* ends, in the offsets and in the timestamps written to the set events.
\* (Stated for the workouts of positive duration.)
C18_NoGapsNoOverlaps ==
    (FitDone /\ FitDuration > 0) => (OffsetsContiguous /\ EventsContiguous)

\* The table holds an 'external' row towards Strava for the routed activity
HasExternalRow(log) ==
    \E row \in log :
        /\ row.source_platform = RouteSource
        /\ row.source_id = RouteSourceId
        /\ row.destination = "strava"
        /\ row.status = "external"

\* C26: an activity with an 'external' sync-log entry towards Strava is never
\* uploaded to Strava by the routing step, be it a Hevy workout or a Garmin
\* activity.
C26_ExternalNeverUploaded ==
    route_pc # "idle" =>
        \A k \in 1..Len(route_st.trace) :
            LET t == route_st.trace[k]
            IN  (t.decision = "pushed" /\ t.destination = "strava")
                    => ~HasExternalRow(t.log)

\* The Garmin half of C26: the SELECT keeps such an activity out of the loop
C26_GarminExternalNeverUploaded ==
    (route_pc # "idle" /\ RouteSource = "garmin") => ~HasExternalRow(sync_log)

\* C28: within one execute_routes call an activity is pushed to a given
\* destination at most once, even when several matched rules name the same
\* destination, for Garmin activities (routed without a connection) as for
\* Hevy workouts: no two results of the call report 'sent' for one destination.
C28_PushedAtMostOnce ==
    route_pc # "idle" =>
        \A i, j \in 1..Len(route_st.results) :
            (/\ i # j
             /\ route_st.results[i].destination = route_st.results[j].destination
             /\ route_st.results[i].status = "sent")
                => route_st.results[j].status # "sent"

\* The Hevy half of C28: with the connection of the call the second rule
\* naming a destination is skipped once the first push was logged as 'sent'
C28_HevyPushedAtMostOnce ==
    (route_pc # "idle" /\ RouteSource = "hevy") => C28_PushedAtMostOnce

\* C30: generate_fit never produces a file or a summary with a negative
\* duration or a negative calorie total: a workout whose end precedes its
\* start is rejected with an error rather than encoded, and every accepted
\* workout has duration_s >= 0 and calories >= 0.
C30_NoNegativeDuration ==
    FitDone =>
        /\ FitDuration < 0 => (fit_out.raised /\ ~fit_out.written)
        /\ fit_out.summary # <<>> =>
              (FitSummary.duration_s >= 0 /\ FitSummary.calories >= 0)
        /\ fit_out.written =>
              \A m \in {"lap", "session"} :
                  MsgsOf(fit_out.file, m)[1].total_calories >= 0

\* every set event lies between the workout start and the workout end
EventsWithinWorkout ==
    \A k \in 1..Len(SetEvents) :
        /\ FitStartMs <= SetEvents[k].start_time[1]
        /\ SetEvents[k].start_time[1] <= FitEndMs
        /\ FitStartMs <= SetEvents[k].ms
        /\ SetEvents[k].ms <= FitEndMs

\* C25: every active-set event and every rest event written to the file has
\* its timestamp and its start_time between the timer-start timestamp and
\* the timer-stop timestamp, for every workout of a duration >= 0, whatever
\* the clamped scale factor.
C25_EventsWithinTimer ==
    (FitDone /\ FitDuration >= 0) =>
        /\ MsgsOf(fit_out.file, "event_start")[1].timestamp = FitStartMs
        /\ MsgsOf(fit_out.file, "event_stop")[1].timestamp = FitEndMs
        /\ EventsWithinWorkout

\* The scale is raised to the lower clamp bound: duration < 0.3 * ideal_total
ClampedFromBelow ==
    /\ fit_out.ideal_total > 0
    /\ 10 * FitDuration < 3 * fit_out.ideal_total

\* C25 amended: the timer-start and timer-stop events carry the workout's
\* start and end, and every active-set and rest event has its timestamp and
\* its start_time between them, for every workout of duration >= 0 whose
\* scale is not raised to the lower clamp bound (duration >= 0.3 * ideal).
C25_EventsWithinTimerUnlessRaised ==
    (FitDone /\ FitDuration >= 0 /\ ~ClampedFromBelow) =>
        /\ MsgsOf(fit_out.file, "event_start")[1].timestamp = FitStartMs
        /\ MsgsOf(fit_out.file, "event_stop")[1].timestamp = FitEndMs
        /\ EventsWithinWorkout

\* An unclamped workout with set and rest events, the last ending with it
C25_Witness ==
    /\ FitDone
    /\ FitDuration > 0
    /\ ~ClampedFromBelow
    /\ FitDuration < 2 * fit_out.ideal_total
    /\ Len(SetEvents) >= 3
    /\ SetEvents[Len(SetEvents)].ms = FitEndMs

-----------------------------------------------------------------------------
(* Properties of _calc_calories *)

\* C17: for every list of identical heart-rate values, every workout year
\* and every duration D >= 0, the estimate for 2 * D differs from twice the
\* estimate for D by at most 1.
C17_LinearInDuration ==
    call_pc = "done" =>
        /\ call_out[2] - 2 * call_out[1] <= 1
        /\ 2 * call_out[1] - call_out[2] <= 1

\* Several samples, a positive estimate, and a rounding that shows
C17_Witness ==
    /\ call_pc = "done"
    /\ Len(call_in.hr_samples) > 1
    /\ call_out[1] > 0
    /\ call_out[2] = 2 * call_out[1] - 1

-----------------------------------------------------------------------------
(* Properties of lookup_exercise *)

\* C19: lookup_exercise is total and exact.  Every name looked up has been
\* answered: a name of the table with the table's category and subcategory and
\* the name itself, any other string (the empty one too) with 65534, 0 and
\* the name itself; and the table is as it was before the lookups.
C19_LookupTotalExact ==
    /\ call_out.table = HEVY_TO_GARMIN
    /\ Len(call_out.results) <= Len(call_in)
    /\ call_pc = "done" => Len(call_out.results) = Len(call_in)
    /\ \A i \in 1..Len(call_out.results) :
          LET name == call_in[i]
              r == call_out.results[i]
          IN  /\ Len(r) = 3
              /\ r[3] = name
              /\ name \in DOMAIN call_out.table =>
                     r[1] = call_out.table[name][1] /\ r[2] = call_out.table[name][2]
              /\ name \notin DOMAIN call_out.table => r[1] = 65534 /\ r[2] = 0

\* a finished run that looked up a name of the table, the empty string and a
\* key written in lower case
C19_Witness ==
    /\ call_pc = "done"
    /\ \E i, j, k \in 1..Len(call_in) :
          /\ call_in[i] = "Squat (Barbell)" /\ call_out.results[i] = <<28, 6, "Squat (Barbell)">>
          /\ call_in[j] = "" /\ call_out.results[j] = <<65534, 0, "">>
          /\ call_in[k] = "bench press (barbell)"
          /\ call_out.results[k][1] = 65534

-----------------------------------------------------------------------------
(* Properties of the runs of enrich_new_workouts *)

\* daily is better than avg_N, avg_N better than static
Tier(hr_source) ==
    CASE hr_source.name = "daily" -> 3
      [] hr_source.name = "avg" -> 2
      [] OTHER -> 1

\* C24: over any sequence of runs the heart-rate source stored for a workout
\* never gets coarser: a row stored as "daily" is never written again, and
\* the row of a stale workout is written again only when the newly resolved
\* source is better than the stored one.
C24_NeverCoarser ==
    \A j \in 1..Len(enr_st.rewrites) :
        /\ enr_st.rewrites[j].old.name # "daily"
        /\ Tier(enr_st.rewrites[j].new) > Tier(enr_st.rewrites[j].old)

\* the weaker statement the runs do satisfy: a rewrite changes the source and
\* never makes it coarser
C24_NotCoarser ==
    \A j \in 1..Len(enr_st.rewrites) :
        /\ enr_st.rewrites[j].old.name # "daily"
        /\ enr_st.rewrites[j].new # enr_st.rewrites[j].old
        /\ Tier(enr_st.rewrites[j].new) >= Tier(enr_st.rewrites[j].old)

-----------------------------------------------------------------------------
(* Properties of reconcile_strava_syncs *)

ReconSources == rec_in.garmin \o rec_in.hevy

\* the rows of the log for one source activity, by position
RowsOf(src) ==
    {k \in 1..Len(rec_st.log) :
        /\ rec_st.log[k].source_platform = src.platform
        /\ rec_st.log[k].source_id = src.source_id
        /\ rec_st.log[k].destination = "strava"}

\* some Strava activity starts within 120 s of the source, or has its
\* non-empty name and starts within 24 h of it
Matchable(src) ==
    \E j \in 1..Len(rec_in.strava) :
        LET sa == rec_in.strava[j] IN
        \/ AbsDiff(src.start_epoch, sa.start_epoch) <= 120
        \/ /\ sa.name # "" /\ sa.name = src.name
           /\ AbsDiff(src.start_epoch, sa.start_epoch) <= 86400

\* C23: an 'external' row is created for a Garmin or Hevy activity only if a
\* Strava activity starts within 120 s of it or has the same non-empty name
\* and starts within 24 h of it, and never when a 'sent' or 'external' row
\* towards Strava exists for it; so at most one row is created per source
\* activity, and a run after a run that returned creates no row and returns 0.
C23_ReconcileOnce ==
    /\ \A k \in (Len(rec_in.log) + 1)..Len(rec_st.log) :
          /\ rec_st.log[k].status = "external"
          /\ \E i \in 1..Len(ReconSources) :
                /\ k \in RowsOf(ReconSources[i])
                /\ Matchable(ReconSources[i])
                /\ \A j \in RowsOf(ReconSources[i]) :
                      j < k => rec_st.log[j].status \notin {"sent", "external"}
    /\ \A i \in 1..Len(ReconSources) :
          Cardinality({k \in RowsOf(ReconSources[i]) : k > Len(rec_in.log)}) <= 1
    /\ \A r \in 2..Len(rec_st.runs) :
          (~rec_st.runs[r - 1].raised /\ ~rec_st.runs[r].raised) =>
              /\ rec_st.runs[r].returned = <<0>>
              /\ (IF r < Len(rec_st.runs) THEN rec_st.runs[r + 1].before
                   ELSE Len(rec_st.log)) = rec_st.runs[r].before

\* a first run created a row by time and a row by name, beside a source whose
\* earlier push failed, and the second run returned 0
C23_Witness ==
    /\ Len(rec_st.runs) = 2
    /\ rec_st.runs[1].returned = <<2>>
    /\ rec_st.runs[2].returned = <<0>>
    /\ \E k \in 1..Len(rec_st.log), i \in 1..Len(ReconSources) :
          /\ rec_st.log[k].status = "external"
          /\ k \in RowsOf(ReconSources[i])
          /\ \A j \in 1..Len(rec_in.strava) :
                AbsDiff(ReconSources[i].start_epoch, rec_in.strava[j].start_epoch) > 120

-----------------------------------------------------------------------------
(* Properties of _safe_db_op *)

\* C22: _safe_db_op calls the operation at most max_retries times, each
\* attempt on a connection of its own; every attempt but the last ended in a
\* connection-type error; an error that is not connection-type propagates
\* from the attempt it occurs in (after exactly one attempt when that is the
\* first), a connection-type error propagates from attempt max_retries, and
\* the result of the first successful attempt is returned, with no attempt
\* after it.
C22_RetryContract ==
    LET a == call_out.attempts
        n == Len(a)
        Err(i) == a[i].outcome.error[1]
    IN  /\ n <= call_in.max_retries
        /\ Cardinality({i \in 1..n : a[i].outcome.called}) <= call_in.max_retries
        /\ \A i, j \in 1..n : i # j => a[i].conn # a[j].conn
        /\ \A i \in 1..(n - 1) :
              a[i].outcome.kind # "ok" /\ Err(i).connection_type
        /\ \A i \in 1..n :
              /\ a[i].outcome.kind = "ok" =>
                    i = n /\ call_pc = "done" /\ call_out.result = <<"result">>
              /\ (a[i].outcome.kind # "ok" /\ ~Err(i).connection_type) =>
                    i = n /\ call_pc = "raised" /\ call_out.raised = <<Err(i)>>
              /\ (a[i].outcome.kind # "ok" /\ Err(i).connection_type) =>
                    IF i = call_in.max_retries
                    THEN call_pc = "raised" /\ call_out.raised = <<Err(i)>>
                    ELSE call_pc = "call" \/ i < n
        /\ call_pc = "raised" => n >= 1 /\ a[n].outcome.kind # "ok"
        /\ (call_pc = "done" /\ n >= 1) => a[n].outcome.kind = "ok"

\* two attempts lost their connection (one with the upper-case SSL message)
\* and the third returned
C22_Witness ==
    /\ call_pc = "done"
    /\ Len(call_out.attempts) = 3
    /\ call_out.attempts[1].outcome.error = <<[msg |-> ERR_SSL, connection_type |-> TRUE]>>
    /\ call_out.attempts[2].outcome.kind = "operation_raises"
    /\ call_out.attempts[3].outcome.kind = "ok"
    /\ call_out.result = <<"result">>

-----------------------------------------------------------------------------
(* Properties of GarminBackfill *)

\* the date is at or after oldest_date_done: a resumed run will not list it
RecordedDone(d) ==
    /\ bf_db.progress # <<>>
    /\ bf_db.progress[1].oldest_date_done # <<>>
    /\ d >= bf_db.progress[1].oldest_date_done[1]

\* C21: the Garmin backfill survives interruption without losing work.  Over
\* any sequence of interrupted and resumed runs a date is recorded as done
\* (it is oldest_date_done or a later date) only after every endpoint of the
\* date has been attempted, so that no date between day 1 and the first
\* run's today is skipped.
C21_NoDateSkipped ==
    \A d \in 1..BackfillDays :
        RecordedDone(d) => \A ep \in AllEndpoints : <<d, ep>> \in bf_db.attempted

-----------------------------------------------------------------------------
(* Properties of push_workout_to_strava *)

\* a reply of check_upload_status that carries neither an activity id nor an error
YieldsNeither(reply) ==
    ~reply.raised /\ reply.activity_id = <<>> /\ reply.error = <<>>

\* C20: the upload status is polled at most 5 times and only while no poll
\* has returned an activity id or an error: every poll but the last returned
\* neither, and a call that polled fewer than 5 times has returned because
\* its last poll returned one (or failed); after 5 polls that return neither
\* the result has status 'error' and no activity id; an upload whose response
\* carries an activity id is never polled.
C20_PollingBounded ==
    LET polls == push_st.polls
        n == Len(polls)
    IN  /\ n <= 5
        /\ \A i \in 1..(n - 1) : YieldsNeither(polls[i])
        /\ push_in.upload.activity_id # <<>> => n = 0
        /\ (push_pc \in {"status", "returned"} /\ n >= 1 /\ n < 5)
             => ~YieldsNeither(polls[n])
        /\ (push_pc = "status" /\ push_in.upload.activity_id = <<>>) => n >= 1
        /\ (push_pc = "returned" /\ n = 5 /\ YieldsNeither(polls[5]))
             => /\ push_st.result[1].status = "error"
                /\ push_st.result[1].strava_activity_id = <<>>

\* five polls that returned neither, and the call has returned
C20_Witness ==
    /\ push_pc = "returned"
    /\ Len(push_st.polls) = 5
    /\ \A i \in 1..5 : YieldsNeither(push_st.polls[i])
    /\ push_st.result[1].error = TimedOut

\* C27: push_garmin_activity_to_strava returns and logs status 'sent' only if
\* a Strava activity id was obtained from the upload response or from a status
\* poll; after 5 polls that return neither an id nor an error the outcome is
\* not 'sent'.
C27_SentOnlyWithActivityId ==
    push_pc = "returned" =>
        /\ push_st.result[1].status = "sent"
              => IdTruthy(push_st.result[1].strava_activity_id)
        /\ \A row \in push_st.log : row.status = "sent" => IdTruthy(push_st.activity_id)

\* C29: the Hevy backfill's progress never advances past an unsaved workout:
\* after any sequence of save failures, fetch failures and resumed runs every
\* workout on every page up to the recorded last_page is in the database.
C29_NoUnsavedPageSkipped ==
    (bf_db.progress # <<>> /\ bf_db.progress[1].last_page # <<>>) =>
        \A page \in 1..bf_db.progress[1].last_page[1], k \in 1..PageSize :
            <<page, k>> \in bf_db.raw_data

-----------------------------------------------------------------------------
(* Properties of enrich_new_workouts *)

EnrichCalls == IF enr_pc = "idle" THEN <<>> ELSE enr_st.calls

\* C15: every list of historical averages handed to the resolver is ordered
\* most-recent workout first and holds only averages (>= 65) of workouts whose
\* measured heart rate passed the tier-1 test, at every resolver call of an
\* enrichment run.
C15_HistoryOrdered ==
    \A c \in 1..Len(EnrichCalls) :
        LET recent == EnrichCalls[c]
        IN  /\ \A a, b \in 1..Len(recent) : a < b => recent[a].day >= recent[b].day
            /\ \A a \in 1..Len(recent) : recent[a].avg >= 10 * 65

-----------------------------------------------------------------------------
(* Properties of execute_routes and should_sync *)

\* The table holds a 'sent' row for this activity and the destination
SentRow(log, destination) ==
    \E row \in log :
        /\ row.source_platform = RouteSource
        /\ row.source_id = RouteSourceId
        /\ row.destination = destination
        /\ row.status = "sent"

RouteTrace == IF route_pc = "idle" THEN <<>> ELSE route_st.trace
RouteCheck == IF route_pc = "idle" THEN <<>> ELSE route_st.check

\* The destinations execute_routes went on to dispatch
Dispatched == {"pushed", "raised", "unconfigured", "no_connector"}

\* C8: execute_routes never dispatches to a destination equal to the source
\* platform, and with a DB connection never to a destination for which the
\* activity already has a 'sent' row; every destination it skips is one of
\* these two cases, and should_sync called on its own refuses exactly when the
\* destination is the source or (connection, source id, 'sent' row) all hold.
C8_NoLoopNoDuplicate ==
    /\ \A i \in 1..Len(RouteTrace) :
         LET e == RouteTrace[i]
             refused == \/ e.destination = RouteSource
                        \/ route_in.conn /\ SentRow(e.log, e.destination)
         IN  /\ e.decision \in Dispatched => ~refused
             /\ e.decision = "skipped" => refused
    /\ \A i \in 1..Len(RouteCheck) :
         LET c == RouteCheck[i]
         IN  c.allowed <=>
                ~(\/ c.destination = RouteSource
                  \/ /\ route_in.conn
                     /\ c.source_id # <<>>
                     /\ SentRow(sync_log, c.destination))

\* A call that pushed to a destination, later skipped the same destination
\* because of the row the push logged, and skipped the source platform itself
C8_Witness ==
    /\ route_pc = "returned"
    /\ route_in.conn
    /\ \E i, j, k \in 1..Len(RouteTrace) :
        /\ i < j
        /\ RouteTrace[i].decision = "pushed"
        /\ ~SentRow(RouteTrace[i].log, RouteTrace[i].destination)
        /\ RouteTrace[j].decision = "skipped"
        /\ RouteTrace[j].destination = RouteTrace[i].destination
        /\ RouteTrace[j].destination # RouteSource
        /\ RouteTrace[k].decision = "skipped"
        /\ RouteTrace[k].destination = RouteSource

-----------------------------------------------------------------------------
(* Properties of resolve_hr_samples *)

HrDone == hr_pc = "done"

\* C3: the resolver returns the measured samples unchanged, tagged "daily",
\* exactly when the measured list is non-empty and its mean is >= 65 bpm (a
\* mean of exactly 65 included); otherwise it never answers "daily".
C3_DailyThreshold ==
    /\ hr_out.source.name = "daily"
        <=> (hr_out.hr # <<>> /\ SumSeq(hr_out.hr) >= 65 * Len(hr_out.hr))
    /\ hr_out.source.name = "daily" => hr_out.samples = hr_out.hr
    /\ HrDone => hr_out.source.name \in {"daily", "avg", "static"}

\* Two measured samples whose mean is exactly 65
C3_Witness ==
    /\ HrDone
    /\ hr_out.source.name = "daily"
    /\ Len(hr_out.hr) = 2
    /\ SumSeq(hr_out.hr) = 65 * 2
    /\ hr_out.samples = <<64, 66>>

\* C4: resolve_hr_samples never raises, whatever the timestamps, the stored
\* monitoring data and the history are.
C4_NeverRaises == hr_pc # "raised"

\* What C5 says of a call that did not answer "daily"
FallbackAsClaimed ==
    LET hist == hr_in.recent_hr_avgs
        n == Len(hist)
        N == IF n < 10 THEN n ELSE 10
        total == SumSeq(SubSeq(hist, 1, N))
    IN  /\ Len(hr_out.samples) = 30
        /\ \A i \in 1..Len(hr_out.samples) : hr_out.samples[i] = hr_out.samples[1]
        /\ n >= 1 =>
            /\ hr_out.source = [name |-> "avg", n |-> N]
            /\ 2 * (10 * N * hr_out.samples[1] - total) <= 10 * N
            /\ 2 * (total - 10 * N * hr_out.samples[1]) <= 10 * N
        /\ n = 0 =>
            /\ hr_out.source = [name |-> "static", n |-> 0]
            /\ hr_out.samples[1] = 90

\* C5: whenever the daily tier does not apply, a history of n >= 1 averages
\* gives 30 samples, all the mean of its first min(n, 10) entries rounded to a
\* nearest integer, tagged avg_N with N = min(n, 10); an empty history gives
\* 30 samples of 90 tagged "static".
C5_FallbackTiers ==
    (hr_pc \in {"done", "raised"} /\ hr_out.source.name # "daily")
        => FallbackAsClaimed

\* The tiers are as C5 says in every call that returns
C5_TiersWhenReturned ==
    (HrDone /\ hr_out.source.name # "daily") => FallbackAsClaimed

\* A history longer than the window whose later entries differ
C5_Witness ==
    /\ HrDone
    /\ Len(hr_in.recent_hr_avgs) > 10
    /\ hr_in.recent_hr_avgs[11] # hr_in.recent_hr_avgs[1]
    /\ hr_out.source = [name |-> "avg", n |-> 10]
    /\ hr_out.samples[30] = 150

====
